---- MODULE Spec2Model ----
(***************************************************************************)
(* Verification model of the SmartEcom backend (tazsk/SmartEcom):          *)
(*   - the Kroger cart synchronization engine (addKrogerItemsToCart, the   *)
(*     auto-add route krogerSearch, the OAuth callback krogerCallback);    *)
(*   - the search pipeline and its Redis caches (runKrogerSearchPipeline,  *)
(*     runWalmartMatchByIndexDetailed).                                    *)
(***************************************************************************)
EXTENDS Integers, Sequences, FiniteSets, TLC

(* ------------------------------ bounds ------------------------------- *)
MaxItems == 3      \* longest itemsToAdd list handed to addKrogerItemsToCart
MaxTok == 3        \* access tokens the OAuth server issues in one behaviour
MaxTicks == 2      \* clock ticks in one behaviour
MaxConcItems == 2  \* longest plan of a request that overlaps another one
MaxRequests == 2   \* krogerSearch requests answered in one behaviour
MaxExpiries == 1   \* TTL expiries in one behaviour
MaxLater == 2      \* requests that arrive after two overlapping ones
MaxOffers == 2     \* products one retailer holds for an ingredient
MaxLitres == 3     \* litres a size text names

(* ------------------------- program constants ------------------------- *)
SafetyMarginMs == 60000         \* isTokenValid: expiresAt - now > 60_000
NoTok == 0                      \* a missing accessToken (falsy)
NoDate == 0                     \* a missing expiresAt (falsy)
NetErr == 0                     \* axios rejects: no HTTP status at all
TickMs == SafetyMarginMs \div 2
ExpiresInSec == {60, 120}       \* expires_in values the token endpoint sends
Statuses == {200, 401, 403, 500}
Outcomes == Statuses \cup {NetErr}
UserId == "u1"

Runs == {1, 2}                  \* request handlers that may be in flight

(* ------------------------------ state -------------------------------- *)
VARIABLES
  now,       \* Date.now(), in ms
  db,        \* the persisted User document's kroger sub-document
  tokCount,  \* access tokens issued so far by the OAuth server
  run,       \* run[r]: the state of request handler r (krogerSearch autoAdd)
  cb,        \* outcome of the last krogerCallback request
  redis,     \* the Redis store: one map per key family
  req,       \* the krogerSearch request in progress and its locals
  warm,      \* per input, the payload answered since Redis last dropped an entry
  served,    \* krogerSearch requests answered so far
  expiries,  \* TTL expiries so far
  redisUp,   \* whether the Redis server answers (FALSE: get and set reject)
  other,     \* a second krogerSearch request, suspended at an await
  answers,   \* payloads answered to overlapping requests and to later ones
  decision,  \* the last chooseWinnerForIngredient call and what it returned
  measure,   \* the last two size texts parsed and what the parser returned
  call,      \* one searchProductsByTerm call and the HTTP requests it made
  lastOffer, \* the last product bestComparableOffer read and the offer it built
  kcart,     \* addToKrogerCart: the persisted snapshot and the remote cart
  history    \* the catalog searches that failed, and those followed by an expiry

cartVars == <<now, db, tokCount, run, cb>>
auxVars == <<redisUp, other, answers, decision, measure, call, lastOffer, kcart, history>>
pipeVars == <<redis, req, warm, served, expiries, auxVars>>
vars == <<now, db, tokCount, run, cb, redis, req, warm, served, expiries,
          redisUp, other, answers, decision, measure, call, lastOffer, kcart, history>>

(* ------------------------- Map (Mongoose Map) ------------------------ *)
EmptyMap == [k \in {} |-> 0]
MapSet(m, k, v) == [x \in (DOMAIN m) \cup {k} |-> IF x = k THEN v ELSE m[x]]
MapGet(m, k) == IF k \in DOMAIN m THEN m[k] ELSE 0

(* ----------------------- item list normalisation --------------------- *)
\* itemsToAdd entries as the callers build them: upc may be empty or
\* repeated, quantity may be missing (0)
ItemChoices ==
  { [upc |-> "a", quantity |-> 0], [upc |-> "b", quantity |-> 2],
    [upc |-> "c", quantity |-> 1], [upc |-> "a", quantity |-> 2],
    [upc |-> "",  quantity |-> 1] }

RECURSIVE SeqsUpTo(_, _)
SeqsUpTo(S, n) ==
  IF n = 0 THEN { <<>> }
  ELSE LET shorter == SeqsUpTo(S, n - 1)
       IN  shorter \cup { Append(s, x) : s \in { t \in shorter : Len(t) = n - 1 }, x \in S }

PlanInputs == SeqsUpTo(ItemChoices, MaxItems)

\* .map(x => ({upc: String(x.upc||"").trim(), quantity: Number(x.quantity||1)||1}))
\* .filter(x => x.upc)
RECURSIVE NormalizeItems(_)
NormalizeItems(raw) ==
  IF raw = <<>> THEN <<>>
  ELSE LET x == Head(raw)
           it == [upc |-> x.upc, quantity |-> IF x.quantity = 0 THEN 1 ELSE x.quantity]
       IN  IF x.upc = "" THEN NormalizeItems(Tail(raw))
           ELSE <<it>> \o NormalizeItems(Tail(raw))

\* the seen/uniq loop: keep the first entry of every upc
RECURSIVE UniqFrom(_, _)
UniqFrom(items, seen) ==
  IF items = <<>> THEN <<>>
  ELSE IF Head(items).upc \in seen THEN UniqFrom(Tail(items), seen)
       ELSE <<Head(items)>> \o UniqFrom(Tail(items), seen \cup {Head(items).upc})

Uniq(raw) == UniqFrom(NormalizeItems(raw), {})

(* --------------------------- OAuth helpers --------------------------- *)
\* an isTokenValid without the safety margin
isTokenValidNoMargin(k) ==
  /\ k.accessToken # NoTok
  /\ k.expiresAt # NoDate
  /\ k.expiresAt - now > 0

\* isTokenValid(kroger)
isTokenValid(k) ==
  /\ k.accessToken # NoTok
  /\ k.expiresAt # NoDate
  /\ k.expiresAt - now > SafetyMarginMs

(* base64url: characters are numbered 0..63 in the base64 alphabet        *)
(* (62 is '+', 63 is '/'), 64 is '=', 65 is '-', 66 is '_'               *)
ChPlus == 62
ChSlash == 63
ChPad == 64
ChDash == 65
ChUnder == 66

RECURSIVE B64Encode(_)
B64Encode(bytes) ==
  LET n == Len(bytes) IN
  IF n = 0 THEN <<>>
  ELSE IF n = 1 THEN
    << bytes[1] \div 4, (bytes[1] % 4) * 16, ChPad, ChPad >>
  ELSE IF n = 2 THEN
    << bytes[1] \div 4, (bytes[1] % 4) * 16 + bytes[2] \div 16,
       (bytes[2] % 16) * 4, ChPad >>
  ELSE
    << bytes[1] \div 4, (bytes[1] % 4) * 16 + bytes[2] \div 16,
       (bytes[2] % 16) * 4 + bytes[3] \div 64, bytes[3] % 64 >>
    \o B64Encode(SubSeq(bytes, 4, n))

RECURSIVE B64Decode(_)
B64Decode(s) ==
  LET n == Len(s) IN
  IF n < 2 THEN <<>>
  ELSE IF n = 2 THEN << s[1] * 4 + s[2] \div 16 >>
  ELSE IF n = 3 THEN << s[1] * 4 + s[2] \div 16, (s[2] % 16) * 16 + s[3] \div 4 >>
  ELSE << s[1] * 4 + s[2] \div 16, (s[2] % 16) * 16 + s[3] \div 4,
          (s[3] % 4) * 64 + s[4] >>
       \o B64Decode(SubSeq(s, 5, n))

ReplaceCh(s, from, to) == [i \in 1..Len(s) |-> IF s[i] = from THEN to ELSE s[i]]
RemoveCh(s, ch) == SelectSeq(s, LAMBDA c : c # ch)

\* b64u(input): toString("base64").replace(/=/g,"").replace(/\+/g,"-").replace(/\//g,"_")
b64u(bytes) ==
  ReplaceCh(ReplaceCh(RemoveCh(B64Encode(bytes), ChPad), ChPlus, ChDash), ChSlash, ChUnder)

\* JSON text of a state object, as bytes.  Layout: userId, action, returnTo,
\* t, then (upc, quantity) per item.
UpcCode(upc) == CASE upc = "a" -> 251 [] upc = "b" -> 255 [] upc = "c" -> 99 [] OTHER -> 32
CodeUpc(b) == CASE b = 251 -> "a" [] b = 255 -> "b" [] b = 99 -> "c" [] OTHER -> ""
UserCode == 117
ActionAddToCart == 65

RECURSIVE ItemBytes(_)
ItemBytes(items) ==
  IF items = <<>> THEN <<>>
  ELSE << UpcCode(Head(items).upc), Head(items).quantity >> \o ItemBytes(Tail(items))

JSONstringify(obj) ==
  << UserCode, obj.action, obj.returnTo, obj.t \div TickMs >> \o ItemBytes(obj.items)

RECURSIVE BytesItems(_)
BytesItems(bytes) ==
  IF Len(bytes) < 2 THEN <<>>
  ELSE << [upc |-> CodeUpc(bytes[1]), quantity |-> bytes[2]] >>
       \o BytesItems(SubSeq(bytes, 3, Len(bytes)))

\* JSON.parse: NoState when the text is not a well-formed state object
NoState == [userId |-> "", action |-> 0, returnTo |-> 0, t |-> 0, items |-> <<>>]
JSONparse(bytes) ==
  IF Len(bytes) < 4 \/ (Len(bytes) - 4) % 2 # 0 \/ bytes[1] # UserCode THEN NoState
  ELSE [userId |-> UserId, action |-> bytes[2], returnTo |-> bytes[3],
        t |-> bytes[4] * TickMs, items |-> BytesItems(SubSeq(bytes, 5, Len(bytes)))]

b64uJson(obj) == b64u(JSONstringify(obj))

\* a parseB64u that forgets to map '-' and '_' back to '+' and '/'
parseB64uNoReplace(str) == JSONparse(B64Decode(str))

\* parseB64u(str): JSON.parse(Buffer.from(str.replace(/-/g,'+').replace(/_/g,'/'),'base64'))
parseB64u(str) ==
  JSONparse(B64Decode(ReplaceCh(ReplaceCh(str, ChDash, ChPlus), ChUnder, ChSlash)))

\* createHmac("sha256", APP_SECRET).update(body).digest("base64url"): a keyed
\* digest of the body
AppSecret == 7
RECURSIVE WeightedSum(_, _)
WeightedSum(s, i) == IF i > Len(s) THEN 0 ELSE i * (s[i] + 1) + WeightedSum(s, i + 1)
Hmac(body) == (WeightedSum(body, 1) + AppSecret) % 65521

\* signState(stateObj) / sign(stateObj): `${body}.${sig}`
signState(obj) == [body |-> b64uJson(obj), sig |-> Hmac(b64uJson(obj))]

\* a buildAuthorizeUrl that leaves the pending items out of the state
buildAuthorizeUrlNoItems(obj) == [state |-> signState([obj EXCEPT !.items = <<>>])]

\* buildAuthorizeUrl(stateObj): the URL carries the signed state
buildAuthorizeUrl(obj) == [state |-> signState(obj)]
NoUrl == [state |-> [body |-> <<>>, sig |-> 0]]

\* verify(state): the decoded object, or NoState (null)
verify(st) ==
  IF st.sig # Hmac(st.body) THEN NoState ELSE parseB64u(st.body)

(* ------------------------ the persisted document --------------------- *)
Doc(tok, rt, exp, snap) ==
  [accessToken |-> tok, refreshToken |-> rt, expiresAt |-> exp, cartSnapshot |-> snap]

EmptyDoc == Doc(NoTok, FALSE, NoDate, EmptyMap)

\* Mongoose save(): the token fields when they were assigned, and the
\* snapshot keys set since the document was loaded or last saved
Save(d, u, dirty, tokDirty) ==
  [ accessToken  |-> IF tokDirty THEN u.accessToken ELSE d.accessToken,
    refreshToken |-> IF tokDirty THEN u.refreshToken ELSE d.refreshToken,
    expiresAt    |-> IF tokDirty THEN u.expiresAt ELSE d.expiresAt,
    cartSnapshot |-> [k \in (DOMAIN d.cartSnapshot) \cup dirty |->
                        IF k \in dirty THEN u.cartSnapshot[k] ELSE d.cartSnapshot[k]] ]

\* getKrogerCartSnapshot: { items: { [String(k)]: Number(v) } }
getKrogerCartSnapshot(d) == [k \in DOMAIN d.cartSnapshot |-> d.cartSnapshot[k]]

(* --------------------------- request handlers ------------------------ *)
\* bookkeeping of the loop iteration that finished last: which item, the
\* status of its first and of its final response, how many cart calls and
\* token exchanges it took
NoEntry == [index |-> 0, upc |-> "", first |-> NetErr, final |-> NetErr,
            attempts |-> 0, refreshes |-> 0]

IdleRun ==
  [ pc |-> "idle", items |-> <<>>, i |-> 0, token |-> NoTok, u |-> EmptyDoc,
    dirty |-> {}, addedCount |-> 0, skippedCount |-> 0, addedItems |-> <<>>,
    first |-> NetErr, last |-> NoEntry, calls |-> 0, okUpcs |-> {},
    loginUrl |-> NoUrl, refreshes |-> 0, prior |-> EmptyMap,
    overlap |-> FALSE, rank |-> 0 ]

NoCb == [status |-> "none", decoded |-> <<>>, submitted |-> <<>>, before |-> EmptyMap]

InitSnapshots == { EmptyMap, MapSet(MapSet(EmptyMap, "a", 3), "c", 1) }

InitDocs ==
  { Doc(NoTok, rt, NoDate, s) : rt \in BOOLEAN, s \in InitSnapshots }
  \cup { Doc(1, rt, e * 1000, s) : rt \in BOOLEAN, e \in ExpiresInSec, s \in InitSnapshots }

CartInit ==
  /\ now = 0
  /\ db \in InitDocs
  /\ tokCount = 1
  /\ run = [r \in Runs |-> IdleRun]
  /\ cb = NoCb

\* time passes
Tick(active) ==
  /\ now < MaxTicks * TickMs
  /\ \E r \in active : run[r].pc \notin {"done", "failed"}
  /\ now' = now + TickMs
  /\ UNCHANGED <<db, tokCount, run, cb, pipeVars>>

\* a clearCartSnapshotForUser that returns without clearing
clearCartSnapshotNoop(d) == d

\* clearCartSnapshotForUser: u.kroger.cartSnapshot = new Map(); await u.save()
clearCartSnapshotForUser(d) == [d EXCEPT !.cartSnapshot = EmptyMap]

\* bookkeeping: the handlers that are between their first and their last step
InFlight == { x \in Runs : run[x].pc \notin {"idle", "done", "failed", "needs_auth"} }

\* bookkeeping: the position of a run that returns now among the runs that
\* returned a result
NextRank == Cardinality({ x \in Runs : run[x].rank > 0 }) + 1

\* krogerSearch with autoAdd: the snapshot is cleared, then the pipeline
\* builds the plan that is handed to addKrogerItemsToCart
krogerSearchAutoAdd(r, plan) ==
  /\ run[r].pc = "idle"
  /\ db' = clearCartSnapshotForUser(db)
  /\ run' = [run EXCEPT ![r] = [IdleRun EXCEPT !.pc = "pending", !.items = Uniq(plan),
                                               !.prior = db.cartSnapshot,
                                               !.overlap = InFlight # {}]]
  /\ UNCHANGED <<now, tokCount, cb, pipeVars>>

\* a loop body that breaks out of the loop on the first item not added
FinishItemBreakOnError(rr, firstSt, st, attempts, refr) ==
  LET it == rr.items[rr.i]
      ok == st >= 200 /\ st < 300
      entry == [index |-> rr.i, upc |-> it.upc, first |-> firstSt,
                final |-> st, attempts |-> attempts, refreshes |-> refr]
  IN  [rr EXCEPT
        !.addedCount = IF ok THEN @ + 1 ELSE @,
        !.addedItems = IF ok THEN Append(@, it) ELSE @,
        !.u = IF ok THEN [rr.u EXCEPT !.cartSnapshot =
                            MapSet(rr.u.cartSnapshot, it.upc, it.quantity)]
                   ELSE @,
        !.dirty = IF ok THEN @ \cup {it.upc} ELSE @,
        !.last = entry,
        !.calls = @ + attempts,
        !.okUpcs = IF st \in 200..299 THEN @ \cup {it.upc} ELSE @,
        !.refreshes = 0,
        !.i = @ + 1,
        !.pc = IF rr.i = Len(rr.items) \/ ~ok THEN "saving" ELSE "item_loop" ]

\* one loop iteration ends with response status st: the bookkeeping after
\* `const ok = resp.status >= 200 && resp.status < 300`
FinishItem(rr, firstSt, st, attempts, refr) ==
  LET it == rr.items[rr.i]
      ok == st >= 200 /\ st < 300
      same == it.upc \in DOMAIN rr.u.cartSnapshot /\ rr.u.cartSnapshot[it.upc] = it.quantity
      entry == [index |-> rr.i, upc |-> it.upc, first |-> firstSt,
                final |-> st, attempts |-> attempts, refreshes |-> refr]
  IN  [rr EXCEPT
        !.addedCount = IF ok THEN @ + 1 ELSE @,
        !.addedItems = IF ok THEN Append(@, it) ELSE @,
        !.u = IF ok THEN [rr.u EXCEPT !.cartSnapshot =
                            MapSet(rr.u.cartSnapshot, it.upc, it.quantity)]
                   ELSE @,
        !.dirty = IF ok /\ ~same THEN @ \cup {it.upc} ELSE @,
        !.last = entry,
        !.calls = @ + attempts,
        !.okUpcs = IF st \in 200..299 THEN @ \cup {it.upc} ELSE @,
        !.refreshes = 0,
        !.i = @ + 1,
        !.pc = IF rr.i = Len(rr.items) THEN "saving" ELSE "item_loop" ]

\* addKrogerItemsToCart up to the first await after getValidUserToken:
\* findById, normalisation, the empty-list return, isTokenValid
addKrogerItemsToCartBegin(r) ==
  /\ run[r].pc = "pending"
  /\ LET rr == [run[r] EXCEPT !.u = db, !.dirty = {}] IN
       run' = [run EXCEPT ![r] =
         IF rr.items = <<>> THEN [rr EXCEPT !.pc = "done", !.rank = NextRank]
         ELSE IF isTokenValid(db) THEN
           [rr EXCEPT !.pc = "item_loop", !.token = db.accessToken, !.i = 1]
         ELSE IF db.refreshToken THEN [rr EXCEPT !.pc = "token_refresh"]
         ELSE [rr EXCEPT !.pc = "needs_auth",
                 !.loginUrl = buildAuthorizeUrl(
                    [userId |-> UserId, action |-> ActionAddToCart, items |-> rr.items,
                     returnTo |-> 47, t |-> now])]]
  /\ UNCHANGED <<now, db, tokCount, cb, pipeVars>>

\* the document after refreshWithRefreshToken got access token tk, expires_in e
Refreshed(u, tk, e) ==
  [u EXCEPT !.accessToken = tk, !.expiresAt = now + e * 1000]

\* getValidUserToken -> refreshWithRefreshToken before the loop; a throw is
\* caught and yields null, which builds the login URL
tokenRefresh(r) ==
  /\ run[r].pc = "token_refresh"
  /\ \/ /\ tokCount < MaxTok
        /\ \E e \in ExpiresInSec :
             LET u2 == Refreshed(run[r].u, tokCount + 1, e) IN
               /\ db' = Save(db, u2, run[r].dirty, TRUE)
               /\ run' = [run EXCEPT ![r] = [@ EXCEPT !.u = u2, !.dirty = {},
                            !.token = tokCount + 1, !.i = 1, !.pc = "item_loop"]]
        /\ tokCount' = tokCount + 1
     \/ /\ run' = [run EXCEPT ![r] = [@ EXCEPT !.pc = "needs_auth",
                     !.loginUrl = buildAuthorizeUrl(
                        [userId |-> UserId, action |-> ActionAddToCart, items |-> run[r].items,
                         returnTo |-> 47, t |-> now])]]
        /\ UNCHANGED <<db, tokCount>>
  /\ UNCHANGED <<now, cb, pipeVars>>

\* `resp = await attempt(token)` and, on 401/403, the synchronous part of
\* getValidUserToken
attempt(r) ==
  /\ run[r].pc = "item_loop"
  /\ \E o \in Outcomes :
       run' = [run EXCEPT ![r] =
         IF o = NetErr THEN [@ EXCEPT !.pc = "failed", !.calls = @ + 1]
         ELSE IF o \in {401, 403} /\ ~isTokenValid(@.u) /\ @.u.refreshToken
           THEN [@ EXCEPT !.pc = "item_refresh", !.first = o]
         ELSE FinishItem(@, o, o, 1, 0)]
  /\ UNCHANGED <<now, db, tokCount, cb, pipeVars>>

\* refreshWithRefreshToken inside the loop; `if (refreshed && refreshed !== token)`
itemRefresh(r) ==
  /\ run[r].pc = "item_refresh"
  /\ \/ /\ tokCount < MaxTok
        /\ \E e \in ExpiresInSec :
             LET u2 == Refreshed(run[r].u, tokCount + 1, e) IN
               /\ db' = Save(db, u2, run[r].dirty, TRUE)
               /\ run' = [run EXCEPT ![r] = [@ EXCEPT !.u = u2, !.dirty = {},
                            !.token = tokCount + 1, !.refreshes = 1, !.pc = "item_retry"]]
        /\ tokCount' = tokCount + 1
     \/ \* the token endpoint answers with the access token already held
        /\ \E e \in ExpiresInSec :
             LET u2 == Refreshed(run[r].u, run[r].token, e) IN
               /\ db' = Save(db, u2, run[r].dirty, TRUE)
               /\ run' = [run EXCEPT ![r] =
                            FinishItem([@ EXCEPT !.u = u2, !.dirty = {}], @.first, @.first, 1, 1)]
        /\ UNCHANGED tokCount
     \/ \* the exchange throws: caught, refreshed is null
        /\ run' = [run EXCEPT ![r] = FinishItem(@, @.first, @.first, 1, 1)]
        /\ UNCHANGED <<db, tokCount>>
  /\ UNCHANGED <<now, cb, pipeVars>>

\* `resp = await attempt(token)` with the refreshed token
retry(r) ==
  /\ run[r].pc = "item_retry"
  /\ \E o \in Outcomes :
       run' = [run EXCEPT ![r] =
         IF o = NetErr THEN [@ EXCEPT !.pc = "failed", !.calls = @ + 2]
         ELSE FinishItem(@, @.first, o, 2, @.refreshes)]
  /\ UNCHANGED <<now, db, tokCount, cb, pipeVars>>

\* `await u.save()` after the loop, then the return value
saveAndReturn(r) ==
  /\ run[r].pc = "saving"
  /\ db' = Save(db, run[r].u, run[r].dirty, FALSE)
  /\ run' = [run EXCEPT ![r] = [@ EXCEPT !.pc = "done", !.dirty = {}, !.rank = NextRank]]
  /\ UNCHANGED <<now, tokCount, cb, pipeVars>>

(* ------------------------------ OAuth callback ----------------------- *)
\* the snapshot loop of krogerCallback: prev + Number(it.quantity || 1)
RECURSIVE AddAll(_, _)
AddAll(m, items) ==
  IF items = <<>> THEN m
  ELSE LET it == Head(items)
           q == IF it.quantity = 0 THEN 1 ELSE it.quantity
       IN  AddAll(MapSet(m, it.upc, MapGet(m, it.upc) + q), Tail(items))

\* a state string altered in transit
Tamper(st) == [st EXCEPT !.body = [@ EXCEPT ![1] = (@ + 1) % 64]]

\* the states a browser may bring back to /kroger/oauth/callback
ReturnedStates ==
  UNION { { run[r].loginUrl.state, Tamper(run[r].loginUrl.state) } :
            r \in { x \in Runs : run[x].pc = "needs_auth" } }

\* krogerCallback: verify, code exchange, optional cart add of decoded.items
krogerCallback(st, exchangeOk, addOk, e) ==
  LET decoded == verify(st)
      u1 == [db EXCEPT !.accessToken = tokCount + 1, !.expiresAt = now + e * 1000]
  IN
  /\ cb.status = "none"
  /\ IF decoded.userId = "" THEN
       /\ cb' = [NoCb EXCEPT !.status = "rejected", !.before = db.cartSnapshot]
       /\ UNCHANGED <<db, tokCount>>
     ELSE IF ~exchangeOk \/ tokCount >= MaxTok THEN
       /\ cb' = [NoCb EXCEPT !.status = "exchange_failed", !.decoded = decoded.items,
                              !.before = db.cartSnapshot]
       /\ UNCHANGED <<db, tokCount>>
     ELSE IF decoded.action = ActionAddToCart /\ decoded.items # <<>> THEN
       /\ tokCount' = tokCount + 1
       /\ IF addOk THEN
            /\ db' = [u1 EXCEPT !.cartSnapshot = AddAll(db.cartSnapshot, decoded.items)]
            /\ cb' = [status |-> "added", decoded |-> decoded.items,
                      submitted |-> decoded.items, before |-> db.cartSnapshot]
          ELSE
            /\ db' = u1
            /\ cb' = [status |-> "add_failed", decoded |-> decoded.items,
                      submitted |-> decoded.items, before |-> db.cartSnapshot]
     ELSE
       /\ tokCount' = tokCount + 1
       /\ db' = u1
       /\ cb' = [NoCb EXCEPT !.status = "no_action", !.decoded = decoded.items,
                              !.before = db.cartSnapshot]
  /\ UNCHANGED <<now, run, pipeVars>>

Callback ==
  \E st \in ReturnedStates, exchangeOk \in BOOLEAN, addOk \in BOOLEAN, e \in ExpiresInSec :
    krogerCallback(st, exchangeOk, addOk, e)

(* ===================== the search pipeline and its caches ============= *)
PassCount == 20                 \* passCount: 20 in every krogerSearch call
ChooseMax == 2                  \* chooseMax: 2 in every krogerSearch call
UnmatchedCap == 6               \* .slice(0, 6) of the Walmart terms
NoDish == ""                    \* dishName null
NoLoc == ""                     \* locationId null
DefaultZip == "45202"           \* process.env.KROGER_DEFAULT_ZIP

Queries == { "Omelette" }
Zips == { "", "45202" }
Locations == { "L1" }           \* locationId values the /locations lookup answers

\* what the extraction oracle may answer: the `result` array
Llm1Results == { <<>>, <<"egg">>, <<"omelette", "egg", "Milk">> }

\* Kroger /products records and the lists the catalog may answer with
KP(desc, upc) == [description |-> desc, upc |-> upc]
KrogerPools ==
  { <<>>, << KP("t1", "a"), KP("t2", "b") >>, << KP("t1", "c"), KP("t2", "b") >> }
\* Walmart search items and the lists its catalog may answer with
WP(name, id) == [name |-> name, itemId |-> id]
WalmartPools == { <<>>, << WP("t1", 1), WP("t2", 2) >> }

\* index lists the index-match oracle may pick for one ingredient
IndexLists == { <<1, 0, 1>>, <<2>> }

\* String.prototype.toLowerCase on the strings of the model
ToLower(s) ==
  CASE s = "Omelette" -> "omelette" [] s = "Milk" -> "milk"
    [] s = "L" -> "l" [] s = "ML" -> "ml" [] OTHER -> s

\* normText(s): lower case, punctuation to blanks, blanks squeezed, trimmed
normText(s) == ToLower(s)

\* slug(s) of config/kroger.js and norm(s) of config/walmartAffiliate.js
slug(s) == ToLower(s)
norm(s) == ToLower(s)

\* normTitle(s): lower case, punctuation removed, blanks squeezed, trimmed
normTitle(s) == ToLower(s)

\* Math.max(1, Math.min(2, chooseMax))
ClampMax(n) == IF n < 1 THEN 1 ELSE IF n > 2 THEN 2 ELSE n

\* the Redis keys
fastKey(query, zip, chooseMax) ==
  [q |-> normText(query), zip |-> IF zip # "" THEN zip ELSE "none", max |-> ClampMax(chooseMax)]
keyLLM1(query) == normText(query)
krogerSearchKey(term, locationId, limit) ==
  [loc |-> IF locationId # NoLoc THEN locationId ELSE "none", limit |-> limit, q |-> slug(term)]
walmartCacheKey(term) == norm(term)
locKey(zip) == slug(zip)

Has(m, k) == k \in DOMAIN m

Take(s, n) == IF Len(s) <= n THEN s ELSE SubSeq(s, 1, n)
Range(s) == { s[j] : j \in 1..Len(s) }

\* Array.from(new Set(xs)): first occurrences, in order
RECURSIVE DedupeFrom(_, _)
DedupeFrom(xs, seen) ==
  IF xs = <<>> THEN <<>>
  ELSE IF Head(xs) \in seen THEN DedupeFrom(Tail(xs), seen)
       ELSE <<Head(xs)>> \o DedupeFrom(Tail(xs), seen \cup {Head(xs)})
Dedupe(xs) == DedupeFrom(xs, {})

\* titles.map((t, idx) => `${idx}: ${t}`)
Enumerate(titles) == [j \in 1..Len(titles) |-> <<j - 1, titles[j]>>]

\* sha1 of JSON.stringify({ingList, enumerated, chooseMax}): one value per
\* distinct content
Fingerprint(ingList, titlesByIng, chooseMax) ==
  [ingList |-> ingList,
   enumerated |-> [g \in Range(ingList) |-> Enumerate(titlesByIng[g])],
   chooseMax |-> chooseMax]
keyLLM2(ingList, titlesByIng, chooseMax) ==
  [max |-> ClampMax(chooseMax), fp |-> Fingerprint(ingList, titlesByIng, chooseMax)]

\* a size or title text, as far as the unit parser reads it: "a x n unit",
\* with a = 1 when there is no multiplier and unit = "" when the text
\* names no quantity
SizeText(a, n, unit) == [a |-> a, n |-> n, unit |-> unit]
NoText == SizeText(1, 0, "")
\* catalog records that carry a price and a size text
KPriced(desc, upc, price, size) ==
  [description |-> desc, upc |-> upc, price |-> price, size |-> size]
WPriced(name, id, price, size) ==
  [name |-> name, itemId |-> id, salePrice |-> price, size |-> size]

\* normalizeKroger(p, locationId): price 0 and size "" when the record has none
normalizeKroger(p, locationId) ==
  [title |-> p.description, upc |-> p.upc, locationId |-> locationId, retailer |-> "kroger",
   price |-> IF "price" \in DOMAIN p THEN p.price ELSE 0,
   size |-> IF "size" \in DOMAIN p THEN p.size ELSE NoText]

\* normalize(item) of config/walmartAffiliate.js
normalizeWalmart(it) ==
  [id |-> it.itemId, title |-> IF it.name # "" THEN it.name ELSE "Product", upc |-> "",
   locationId |-> NoLoc, retailer |-> "walmart",
   price |-> IF "salePrice" \in DOMAIN it THEN it.salePrice ELSE 0,
   size |-> IF "size" \in DOMAIN it THEN it.size ELSE NoText]

\* the first element of a list, as a sequence of length 0 or 1
First(hits) == IF hits = <<>> THEN <<>> ELSE <<Head(hits)>>

\* the products one Kroger entry resolves to (the inner loop over idx)
RECURSIVE krogerPicks(_, _, _, _)
krogerPicks(idx, pool, titles, locationId) ==
  IF idx = <<>> THEN <<>>
  ELSE LET i == Head(idx)
           rest == krogerPicks(Tail(idx), pool, titles, locationId)
       IN  IF i < 0 \/ i >= Len(titles) THEN rest
           ELSE LET title == titles[i + 1]
                    \* pool.find((p) => p.description === title)
                    found == First(SelectSeq(pool, LAMBDA p : p.description = title))
                    hit == IF found # <<>> THEN found
                           ELSE IF i + 1 <= Len(pool) THEN <<pool[i + 1]>> ELSE <<>>
                IN  [j \in 1..Len(hit) |-> normalizeKroger(hit[j], locationId)] \o rest

\* walmartPicks with the normalised-title lookup tried before the exact one
RECURSIVE walmartPicksNormFirst(_, _, _)
walmartPicksNormFirst(idx, pool, titles) ==
  IF idx = <<>> THEN <<>>
  ELSE LET i == Head(idx)
           rest == walmartPicksNormFirst(Tail(idx), pool, titles)
       IN  IF i < 0 \/ i >= Len(titles) THEN rest
           ELSE LET t == titles[i + 1]
                    exact == First(SelectSeq(pool, LAMBDA it : it.name = t))
                    byNorm == SelectSeq(pool, LAMBDA it : normTitle(it.name) = normTitle(t))
                    hit == IF byNorm # <<>> THEN <<byNorm[Len(byNorm)]>>
                           ELSE IF exact # <<>> THEN exact ELSE <<>>
                IN  [j \in 1..Len(hit) |-> normalizeWalmart(hit[j])] \o rest
\* the products one Walmart entry resolves to: chosen titles, then exact
\* name match or normTitle match
RECURSIVE walmartPicks(_, _, _)
walmartPicks(idx, pool, titles) ==
  IF idx = <<>> THEN <<>>
  ELSE LET i == Head(idx)
           rest == walmartPicks(Tail(idx), pool, titles)
       IN  IF i < 0 \/ i >= Len(titles) THEN rest
           ELSE LET t == titles[i + 1]
                    exact == First(SelectSeq(pool, LAMBDA it : it.name = t))
                    \* new Map(pool.map(...)): the last item of a normalised name
                    byNorm == SelectSeq(pool, LAMBDA it : normTitle(it.name) = normTitle(t))
                    hit == IF exact # <<>> THEN exact
                           ELSE IF byNorm # <<>> THEN <<byNorm[Len(byNorm)]>> ELSE <<>>
                IN  [j \in 1..Len(hit) |-> normalizeWalmart(hit[j])] \o rest

\* the resolution loop over the entries, each with the products its
\* deduplicated indices resolve to (got): products, the per-ingredient lists
\* and the matched ingredients in insertion order
NoMatches == [products |-> <<>>, byIngredient |-> EmptyMap, matched |-> <<>>]
RECURSIVE resolveEntries(_, _)
resolveEntries(entries, acc) ==
  IF entries = <<>> THEN acc
  ELSE LET e == Head(entries)
           got == e.got
           acc2 == IF got = <<>> THEN acc
                   ELSE [products |-> acc.products \o got,
                         byIngredient |-> MapSet(acc.byIngredient, e.ingredient,
                            (IF Has(acc.byIngredient, e.ingredient)
                               THEN acc.byIngredient[e.ingredient] ELSE <<>>) \o got),
                         matched |-> IF e.ingredient \in Range(acc.matched) THEN acc.matched
                                     ELSE Append(acc.matched, e.ingredient)]
       IN  resolveEntries(Tail(entries), acc2)

PoolOf(byIng, g) == IF Has(byIng, g) THEN byIng[g] ELSE <<>>

\* a warning entry; the early-return payloads carry a bare string, which has
\* no ingredient
Warning(ing, err) == [ingredient |-> ing, error |-> err]

UNMATCH_CODES ==
  { "no_candidates", "product_search_failed", "no_confident_title", "no_valid_indices",
    "no_confident_match", "title_not_in_pool" }

\* extractUnmatchedTerms(warnings)
extractUnmatchedTerms(warnings) ==
  LET withIng == SelectSeq(warnings, LAMBDA w : w.ingredient # "" /\ w.error \in UNMATCH_CODES)
  IN  Take(Dedupe([j \in 1..Len(withIng) |-> ToLower(withIng[j].ingredient)]), UnmatchedCap)

\* ingredients.filter((i) => (titlesByIng[i] || []).length > 0)
WithCandidates(ingredients, titlesByIng) ==
  SelectSeq(ingredients, LAMBDA g : PoolOf(titlesByIng, g) # <<>>)

\* an early-return payload that drops the ingredient list
earlyPayloadNoIngredients(dishName, ingredients, warnings) ==
  [products |-> <<>>, warnings |-> warnings, dishName |-> dishName,
   ingredients |-> <<>>, matchedInKroger |-> <<>>,
   krogerCandidateCounts |-> EmptyMap, krogerMatchedByIngredient |-> EmptyMap]

\* the early-return payload of runKrogerSearchPipeline
earlyPayload(dishName, ingredients, warnings) ==
  [products |-> <<>>, warnings |-> warnings, dishName |-> dishName,
   ingredients |-> ingredients, matchedInKroger |-> <<>>,
   krogerCandidateCounts |-> EmptyMap, krogerMatchedByIngredient |-> EmptyMap]

\* the result payload of runKrogerSearchPipeline after the resolution loop
resultPayload(rq, entries) ==
  LET ingList == WithCandidates(rq.ingredients, rq.titlesByIng)
      m == resolveEntries(
             [j \in 1..Len(entries) |->
                [ingredient |-> entries[j].ingredient,
                 got |-> krogerPicks(Dedupe(entries[j].indices),
                                     PoolOf(rq.fullByIng, entries[j].ingredient),
                                     PoolOf(rq.titlesByIng, entries[j].ingredient),
                                     rq.locationId)]],
             NoMatches)
  IN  [products |-> m.products, warnings |-> rq.warnings, dishName |-> rq.dishName,
       ingredients |-> rq.ingredients, matchedInKroger |-> m.matched,
       krogerCandidateCounts |-> [g \in Range(ingList) |-> Len(rq.titlesByIng[g])],
       krogerMatchedByIngredient |-> m.byIngredient]

\* the return value of runWalmartMatchByIndexDetailed
NoWalmart ==
  [products |-> <<>>, matchedInWalmart |-> <<>>, walmartCandidateCounts |-> EmptyMap,
   byIngredient |-> EmptyMap]
walmartResult(rq, entries) ==
  LET m == resolveEntries(
             [j \in 1..Len(entries) |->
                [ingredient |-> entries[j].ingredient,
                 got |-> walmartPicks(Dedupe(entries[j].indices),
                                      PoolOf(rq.wFull, entries[j].ingredient),
                                      PoolOf(rq.wTitles, entries[j].ingredient))]],
             NoMatches)
  IN  [products |-> m.products, matchedInWalmart |-> m.matched,
       walmartCandidateCounts |-> [g \in Range(rq.terms) |-> Len(PoolOf(rq.wTitles, g))],
       byIngredient |-> m.byIngredient]

\* the Walmart terms of the non-budget route
walmartTerms(k) ==
  LET unmatched == SelectSeq(k.ingredients, LAMBDA g : g \notin Range(k.matchedInKroger))
      fromWarnings == extractUnmatchedTerms(k.warnings)
  IN  IF fromWarnings # <<>> THEN fromWarnings ELSE Take(unmatched, UnmatchedCap)

\* buildFinalPayload(krogerResult, walmartResult, {budgetSearch: false})
buildFinalPayload(k, w) ==
  [budgetSearch |-> FALSE, dishName |-> k.dishName, ingredients |-> k.ingredients,
   krogerProducts |-> k.products, walmartProducts |-> w.products,
   matchedInKroger |-> k.matchedInKroger, matchedInWalmart |-> w.matchedInWalmart,
   krogerByIngredient |-> k.krogerMatchedByIngredient, walmartByIngredient |-> w.byIngredient,
   unmatchedIngredients |->
     SelectSeq(k.ingredients, LAMBDA g : g \notin Range(k.matchedInKroger)),
   unmatchedTerms |-> extractUnmatchedTerms(k.warnings), warnings |-> k.warnings]

(* --------------------------- budget mode ------------------------------ *)
\* a decimal number m * 10^e with m no multiple of 10 (zero is Dec(0, 0)):
\* the metric factors are decimal literals, and products of decimals are
\* kept exact
Dec(m, e) == [m |-> m, e |-> e]
RECURSIVE normDec(_, _)
normDec(m, e) ==
  IF m = 0 THEN Dec(0, 0)
  ELSE IF m % 10 = 0 THEN normDec(m \div 10, e + 1)
  ELSE Dec(m, e)
timesDec(a, b) == normDec(a.m * b.m, a.e + b.e)
\* the millilitre factor off by one decimal place
FlozPerMlShifted == Dec(338140227, -9)
FlozPerMl == Dec(338140227, -10)     \* n * 0.0338140227
FlozPerL == Dec(338140227, -7)       \* n * 33.8140227
OzPerG == Dec(352739619, -10)        \* n * 0.0352739619
OzPerKg == Dec(352739619, -7)        \* n * 35.2739619

\* parseUnitQuantityFromText: null; metric tells whether qty is a decimal
NoParse == [kind |-> "none", qty |-> 0, metric |-> FALSE]
\* the unit kind each pattern returns
unitKind(unit) ==
  CASE unit \in {"pack of", "ct", "count", "pk", "pack", "-pack"} -> "count"
    [] unit \in {"fl oz", "floz", "ml", "l"} -> "volume_floz"
    [] unit \in {"oz", "lb", "g", "kg"} -> "weight_oz"
    [] OTHER -> "none"
unitFactor(unit) == IF unit = "lb" THEN 16 ELSE 1
MetricUnits == {"ml", "l", "g", "kg"}
metricFactor(unit) ==
  CASE unit = "ml" -> FlozPerMl [] unit = "l" -> FlozPerL
    [] unit = "g" -> OzPerG [] OTHER -> OzPerKg
\* what a pattern returns for the number n it captured before unit
parsedAs(n, unit) ==
  IF unit \in MetricUnits
    THEN [kind |-> unitKind(unit), qty |-> timesDec(normDec(n, 0), metricFactor(unit)),
          metric |-> TRUE]
    ELSE [kind |-> unitKind(unit), qty |-> n * unitFactor(unit), metric |-> FALSE]
\* the phrases of a text, in the order they are written: "a x n unit", or
\* "n unit" when a = 1; a text of several phrases holds the further ones in
\* the field more
Phrases(text) ==
  << SizeText(text.a, text.n, ToLower(text.unit)) >>
    \o (IF "more" \in DOMAIN text
          THEN [j \in 1..Len(text.more) |->
                  SizeText(text.more[j].a, text.more[j].n, ToLower(text.more[j].unit))]
          ELSE <<>>)
TextOf(phrases) ==
  [a |-> phrases[1].a, n |-> phrases[1].n, unit |-> phrases[1].unit, more |-> Tail(phrases)]
\* the units of each single pattern, in the order the patterns are tried:
\* pack of, ct|count, pk|pack, -pack, fl oz|floz, ml, l, oz, lb, g, kg
PatternsWeightFirst ==
  << {"oz"}, {"lb"}, {"g"}, {"kg"}, {"pack of"}, {"ct", "count"}, {"pk", "pack"}, {"-pack"},
     {"fl oz", "floz"}, {"ml"}, {"l"} >>
Patterns ==
  << {"pack of"}, {"ct", "count"}, {"pk", "pack"}, {"-pack"}, {"fl oz", "floz"}, {"ml"}, {"l"},
     {"oz"}, {"lb"}, {"g"}, {"kg"} >>
\* the units of the multiplier pattern
MultUnits ==
  {"fl oz", "floz", "oz", "lb", "g", "kg", "ml", "l", "ct", "count", "pk", "pack"}
\* t.match(pattern): the first phrase of the text the pattern matches
firstWith(phrases, units) == First(SelectSeq(phrases, LAMBDA ph : ph.unit \in units))
\* the single patterns from pattern k on: a pattern whose first match holds
\* a positive number returns, any other is passed over
RECURSIVE singlePatterns(_, _)
patternReturns(hit, phrases, k) ==
  IF hit # <<>> /\ hit[1].n > 0 THEN parsedAs(hit[1].n, hit[1].unit)
  ELSE singlePatterns(phrases, k + 1)
singlePatterns(phrases, k) ==
  IF k > Len(Patterns) THEN NoParse
  ELSE patternReturns(firstWith(phrases, Patterns[k]), phrases, k)
\* the multi-pack pattern matched mult (<<>> for no match): it returns only
\* for a > 0 and b > 0, with the parse of the text `${total} ${unit}`
multReturns(mult, phrases) ==
  IF mult # <<>> /\ mult[1].a > 0 /\ mult[1].n > 0
    THEN singlePatterns(<< SizeText(1, mult[1].a * mult[1].n, mult[1].unit) >>, 1)
  ELSE singlePatterns(phrases, 1)
parsePhrases(phrases) ==
  multReturns(firstWith(SelectSeq(phrases, LAMBDA ph : ph.a # 1), MultUnits), phrases)
\* parseUnitQuantityFromText(text): the multiplier form is rewritten to
\* "total unit" and parsed again; when it is absent or one of its numbers
\* is not positive the single patterns are tried on the whole text
parseUnitQuantityFromText(text) == parsePhrases(Phrases(text))
NoVolume == [kind |-> "none", qty |-> Dec(0, 0)]
\* parseUnitQuantityFromText on a text that names a volume: lower-cased,
\* the multiplier form folded into one number, then fl oz, ml and l in the
\* order the patterns are tried
parseVolume(text) ==
  LET unit == ToLower(text.unit)
      n == text.a * text.n
  IN  IF n <= 0 THEN NoVolume
      ELSE IF unit \in {"fl oz", "floz"}
        THEN [kind |-> "volume_floz", qty |-> normDec(n, 0)]
      ELSE IF unit = "ml"
        THEN [kind |-> "volume_floz", qty |-> timesDec(normDec(n, 0), FlozPerMl)]
      ELSE IF unit = "l"
        THEN [kind |-> "volume_floz", qty |-> timesDec(normDec(n, 0), FlozPerL)]
      ELSE NoVolume
Measured(text, parsed) == [text |-> text, parsed |-> parsed]
NoMeasure == [first |-> Measured(NoText, NoVolume), second |-> Measured(NoText, NoVolume)]
\* the size texts of two products: litres, millilitres and fluid ounces
VolumeTexts ==
  { SizeText(1, n, u) : n \in 0..MaxLitres, u \in {"L", "l", "fl oz"} }
    \cup { SizeText(1, 1000 * n, u) : n \in 1..MaxLitres, u \in {"ml", "ML"} }
    \cup { SizeText(1, 100 * n, "ml") : n \in 1..MaxLitres }
    \cup { SizeText(2, 1, "l"), SizeText(2, 500, "ml") }
\* the parser is called on the size of one product, then of another
measureFirst(text) ==
  /\ measure' = [measure EXCEPT !.first = Measured(text, parseVolume(text))]
  /\ UNCHANGED <<redis, req, warm, served, expiries, redisUp, other, answers, decision, call, lastOffer, kcart,
                 history, cartVars>>
measureSecond(text) ==
  /\ measure' = [measure EXCEPT !.second = Measured(text, parseVolume(text))]
  /\ UNCHANGED <<redis, req, warm, served, expiries, redisUp, other, answers, decision, call, lastOffer, kcart,
                 history, cartVars>>
(* ----------------------- catalog search calls ------------------------- *)
Retries == 3                    \* withRetry: retries = 3
BaseMs == 300                   \* withRetry: baseMs = 300
JitterMs == 100                 \* Math.floor(Math.random() * 100) < 100
\* a rejected HTTP request: the status of the response (0 when there is no
\* response: timeout, connection reset) and the errors.code of its body
Fail(status, code) == [status |-> status, code |-> code]
Failures ==
  { Fail(0, ""), Fail(429, ""), Fail(503, ""), Fail(400, "API-400"), Fail(400, "API-500") }
Ok == Fail(200, "")
\* String(code).endsWith('-500')
endsWith500(code) == code \in {"API-500"}
\* withRetry: retryable; with one more class retried
retryableAlsoClient(f) ==
  f.status = 429 \/ (f.status >= 400 /\ f.status <= 599) \/ endsWith500(f.code)
retryable(f) ==
  f.status = 429 \/ (f.status >= 500 /\ f.status <= 599) \/ endsWith500(f.code)
\* the fallback tried after any failure
fallbackableAlways(f) == TRUE
\* searchProductsByTerm: the condition of the no-location fallback
fallbackable(f) == f.status >= 500 \/ f.status = 429 \/ endsWith500(f.code)
RECURSIVE Pow2(_)
Pow2(n) == IF n = 0 THEN 1 ELSE 2 * Pow2(n - 1)
\* one catalog search on a cache miss: which client runs it, whether it has
\* a locationId, whether it is in the fallback, the index i of withRetry's
\* loop, every HTTP request sent with its outcome, the delays slept (without
\* the jitter), and how it ended: "list", "empty" (negative entry cached)
\* or "throw"
IdleCall ==
  [pc |-> "idle", retailer |-> "none", hasLocation |-> FALSE, fallback |-> FALSE, i |-> 0,
   requests |-> <<>>, waits |-> <<>>, result |-> "none"]
Request(c, outcome) ==
  [withLocation |-> c.hasLocation /\ ~c.fallback, fallback |-> c.fallback, outcome |-> outcome]
\* Kroger.searchProductsByTerm(term, {locationId}) misses the cache and
\* calls authGet('/products')
searchProductsByTerm(hasLocation) ==
  /\ call.pc = "idle"
  /\ call' = [IdleCall EXCEPT !.pc = "request", !.retailer = "kroger",
                              !.hasLocation = hasLocation]
  /\ UNCHANGED <<redis, req, warm, served, expiries, redisUp, other, answers, decision,
                 measure, lastOffer, kcart, history, cartVars>>
\* Walmart rawSearch(term) misses the cache and calls axios.get
rawSearch ==
  /\ call.pc = "idle"
  /\ call' = [IdleCall EXCEPT !.pc = "request", !.retailer = "walmart"]
  /\ UNCHANGED <<redis, req, warm, served, expiries, redisUp, other, answers, decision,
                 measure, lastOffer, kcart, history, cartVars>>
\* the HTTP request is answered with a list, which is cached and returned
requestSucceeds ==
  /\ call.pc = "request"
  /\ call' = [call EXCEPT !.requests = Append(@, Request(call, Ok)), !.pc = "done",
                          !.result = "list"]
  /\ UNCHANGED <<redis, req, warm, served, expiries, redisUp, other, answers, decision,
                 measure, lastOffer, kcart, history, cartVars>>
\* what the catch block of searchProductsByTerm does with the failure f
\* that withRetry threw, and where a failure of the fallback goes
afterThrow(c, f) ==
  IF c.fallback THEN [c EXCEPT !.pc = "done", !.result = "throw"]
  ELSE IF c.hasLocation /\ fallbackable(f)
    THEN [c EXCEPT !.fallback = TRUE, !.i = 0, !.pc = "request"]
  ELSE [c EXCEPT !.pc = "done", !.result = "empty"]
\* the HTTP request is rejected with f: withRetry sleeps and tries again,
\* or throws; rawSearch has no retry and returns the negative result
requestFails(f) ==
  /\ call.pc = "request"
  /\ LET c == [call EXCEPT !.requests = Append(@, Request(call, f))] IN
     call' = IF call.retailer = "walmart" THEN [c EXCEPT !.pc = "done", !.result = "empty"]
             ELSE IF call.i < Retries /\ retryable(f) THEN [c EXCEPT !.pc = "sleep"]
             ELSE afterThrow(c, f)
  /\ UNCHANGED <<redis, req, warm, served, expiries, redisUp, other, answers, decision,
                 measure, lastOffer, kcart, history, cartVars>>
\* await sleep(baseMs * 2^i + jitter), then the next iteration
backoff ==
  /\ call.pc = "sleep"
  /\ call' = [call EXCEPT !.waits = Append(@, BaseMs * Pow2(call.i)), !.i = @ + 1,
                          !.pc = "request"]
  /\ UNCHANGED <<redis, req, warm, served, expiries, redisUp, other, answers, decision,
                 measure, lastOffer, kcart, history, cartVars>>
\* a normalized product as budget mode reads it (prices in whole units)
Offered(price, size, title) == [price |-> price, size |-> size, title |-> title]
\* the offer of one product: the first candidate text that names a quantity
\* decides the unit; unitPrice = price / unitQty is kept as the pair
\* (price, unitQty) and compared by cross-multiplication
\* the packaging fields of raw that are read, in the order they are read
RawFields == << "size", "sizeString", "packageSize", "packSize", "name" >>
\* the candidate texts of a product: its size when it has one, the
\* packaging fields of raw that hold a non-empty string, its title
candidateTexts(p) ==
  (IF p.size # NoText THEN << p.size >> ELSE <<>>)
    \o (IF "raw" \in DOMAIN p
          THEN LET held == SelectSeq(RawFields, LAMBDA f : f \in DOMAIN p.raw)
                   texts == [j \in 1..Len(held) |-> p.raw[held[j]]]
               IN  SelectSeq(texts, LAMBDA t : t # NoText)
          ELSE <<>>)
    \o << p.title >>
\* for (const c of candidates) { parsed = parse(c); if (parsed) break; }
RECURSIVE firstParsed(_)
parsedOrNext(parsed, rest) == IF parsed # NoParse THEN parsed ELSE firstParsed(rest)
firstParsed(candidates) ==
  IF candidates = <<>> THEN NoParse
  ELSE parsedOrNext(parseUnitQuantityFromText(Head(candidates)), Tail(candidates))
\* parsed.qty > 0
positiveQty(parsed) == IF parsed.metric THEN parsed.qty.m > 0 ELSE parsed.qty > 0
\* hasUnit = parsed && parsed.qty > 0
hasUnit(parsed) == parsed # NoParse /\ positiveQty(parsed)
\* the offer object built from the parse (277-283)
offerWith(p, parsed, unit) ==
  [product |-> p, price |-> p.price,
   unitKind |-> IF unit THEN parsed.kind ELSE "none",
   unitQty |-> IF unit THEN parsed.qty ELSE 0,
   unitPrice |-> IF unit THEN << [price |-> p.price, per |-> parsed.qty] >> ELSE <<>>,
   basis |-> IF unit THEN "unit" ELSE "price",
   metric |-> unit /\ parsed.metric]
offerParsed(p, parsed) == offerWith(p, parsed, hasUnit(parsed))
offerParsedAlwaysUnitPrice(p, parsed) ==
  [offerParsed(p, parsed) EXCEPT !.unitPrice = << [price |-> p.price, per |-> parsed.qty] >>]
\* an offer that carries a unit price whether or not a unit was parsed
offerOfAlwaysUnitPrice(p) == offerParsedAlwaysUnitPrice(p, firstParsed(candidateTexts(p)))
\* the offer of one product (245-283): unitPrice = price / unitQty is kept
\* as the pair of the two in a sequence of length 0 (null) or 1, and
\* compared by cross-multiplication; null unitKind is "none", null unitQty
\* is 0; metric tells that unitQty is a decimal
offerOf(p) == offerParsed(p, firstParsed(candidateTexts(p)))
unitPriceLess(a, b) == a.price * b.unitQty < b.price * a.unitQty
unitPriceLeq(a, b) == a.price * b.unitQty <= b.price * a.unitQty
\* sameUnit with the unit kinds not compared
sameUnitAnyKind(a, b) == a.unitPrice # <<>> /\ b.unitPrice # <<>>
\* offer.unitPrice !== null && best.unitPrice !== null && same unitKind
sameUnit(a, b) == a.unitPrice # <<>> /\ b.unitPrice # <<>> /\ a.unitKind = b.unitKind
\* the comparison of the loop (290-299): the offer replaces the running best
\* when strictly cheaper, by unit price where the two are comparable
better(offer, best) ==
  IF sameUnit(offer, best) THEN (IF unitPriceLess(offer, best) THEN offer ELSE best)
  ELSE IF offer.price < best.price THEN offer ELSE best
betterOrEqual(offer, best) ==
  IF sameUnit(offer, best) THEN (IF unitPriceLeq(offer, best) THEN offer ELSE best)
  ELSE IF offer.price <= best.price THEN offer ELSE best
\* a scan in which a later candidate replaces the running best on a tie
RECURSIVE bestFromLastOnTie(_, _)
bestFromLastOnTie(best, list) ==
  IF list = <<>> THEN best
  ELSE bestFromLastOnTie(betterOrEqual(offerOf(Head(list)), best), Tail(list))
\* the loop of bestComparableOffer from the second product on
RECURSIVE bestFrom(_, _)
bestFrom(best, list) ==
  IF list = <<>> THEN best
  ELSE bestFrom(better(offerOf(Head(list)), best), Tail(list))
\* <<>> for null, else the one best offer
bestComparableOffer(products) ==
  IF products = <<>> THEN <<>>
  ELSE << bestFrom(offerOf(Head(products)), Tail(products)) >>
\* size, packaging and title texts products may carry: none, a weight, a
\* multi-pack, a multi-pack of zero packs, a weight followed by a count, a
\* count of zero followed by a volume, litres, a weight of zero
OfferSizes ==
  { NoText, SizeText(1, 8, "oz"), SizeText(2, 8, "oz"), SizeText(0, 8, "oz"),
    TextOf(<< SizeText(1, 8, "oz"), SizeText(1, 12, "ct") >>),
    TextOf(<< SizeText(1, 0, "ct"), SizeText(1, 16, "fl oz") >>),
    SizeText(1, 2, "L"), SizeText(1, 0, "oz") }
OfferTitles ==
  { NoText, SizeText(1, 1, "lb"), SizeText(1, 6, "-pack"),
    TextOf(<< SizeText(1, 500, "g"), SizeText(3, 4, "pk") >>) }
OfferRaws ==
  { [name |-> NoText],
    [packageSize |-> SizeText(1, 12, "fl oz"), name |-> SizeText(1, 3, "kg")],
    [size |-> SizeText(1, 0, "lb"), packSize |-> SizeText(1, 6, "pack of")] }
\* the products of either retailer bestComparableOffer may read
OfferProducts ==
  { [price |-> 3, size |-> sz, title |-> t] : sz \in OfferSizes, t \in OfferTitles }
    \cup { [price |-> 3, size |-> sz, title |-> t, raw |-> r] :
             sz \in OfferSizes, t \in OfferTitles, r \in OfferRaws }
\* no product has been read yet
NoOffer == [read |-> FALSE, product |-> Offered(0, NoText, NoText),
            offer |-> offerOf(Offered(0, NoText, NoText)),
            listed |-> <<>>, best |-> <<>>]
\* one iteration of the loop of bestComparableOffer up to line 283: the
\* offer built for product p
buildOffer(p) ==
  /\ lastOffer' = [lastOffer EXCEPT !.read = TRUE, !.product = p, !.offer = offerOf(p)]
  /\ UNCHANGED <<redis, req, warm, served, expiries, redisUp, other, answers, decision,
                 measure, call, kcart, history, cartVars>>
\* candidate lists of one retailer for one ingredient: weights, a volume, a
\* count and a product without a size, at prices 2 to 6
MaxListed == 3
ListedProducts ==
  { Offered(5, SizeText(1, 50, "oz"), NoText), Offered(4, SizeText(1, 20, "fl oz"), NoText),
    Offered(3, SizeText(1, 10, "oz"), NoText), Offered(2, NoText, NoText),
    Offered(6, SizeText(1, 12, "ct"), NoText), Offered(5, SizeText(1, 8, "oz"), NoText) }
ListedInputs == UNION { [1..n -> ListedProducts] : n \in 1..MaxListed }
\* bestComparableOffer(products) as a whole: the list read and its result
scanOffers(products) ==
  /\ lastOffer' = [lastOffer EXCEPT !.listed = products,
                                    !.best = bestComparableOffer(products)]
  /\ UNCHANGED <<redis, req, warm, served, expiries, redisUp, other, answers, decision,
                 measure, call, kcart, history, cartVars>>
Decided(winner, krogerBest, walmartBest, reason) ==
  [winner |-> winner, krogerBest |-> krogerBest, walmartBest |-> walmartBest,
   reason |-> reason]
\* the decision between the two best offers (305-334 after the two
\* bestComparableOffer calls)
chooseBetween(krogerBest, walmartBest) ==
  IF krogerBest # <<>> /\ walmartBest = <<>>
    THEN Decided("kroger", krogerBest, walmartBest, "only_kroger")
  ELSE IF krogerBest = <<>> /\ walmartBest # <<>>
    THEN Decided("walmart", krogerBest, walmartBest, "only_walmart")
  ELSE IF krogerBest = <<>> /\ walmartBest = <<>>
    THEN Decided("none", <<>>, <<>>, "none")
  ELSE IF sameUnit(krogerBest[1], walmartBest[1])
    THEN IF unitPriceLeq(krogerBest[1], walmartBest[1])
           THEN Decided("kroger", krogerBest, walmartBest, "unit_price")
         ELSE Decided("walmart", krogerBest, walmartBest, "unit_price")
  ELSE IF krogerBest[1].price <= walmartBest[1].price
    THEN Decided("kroger", krogerBest, walmartBest, "price_fallback")
  ELSE Decided("walmart", krogerBest, walmartBest, "price_fallback")
\* chooseBetween with equal offers going to Walmart
chooseBetweenTieToWalmart(krogerBest, walmartBest) ==
  IF krogerBest # <<>> /\ walmartBest = <<>>
    THEN Decided("kroger", krogerBest, walmartBest, "only_kroger")
  ELSE IF krogerBest = <<>> /\ walmartBest # <<>>
    THEN Decided("walmart", krogerBest, walmartBest, "only_walmart")
  ELSE IF krogerBest = <<>> /\ walmartBest = <<>>
    THEN Decided("none", <<>>, <<>>, "none")
  ELSE IF sameUnit(krogerBest[1], walmartBest[1])
    THEN IF unitPriceLess(krogerBest[1], walmartBest[1])
           THEN Decided("kroger", krogerBest, walmartBest, "unit_price")
         ELSE Decided("walmart", krogerBest, walmartBest, "unit_price")
  ELSE IF krogerBest[1].price < walmartBest[1].price
    THEN Decided("kroger", krogerBest, walmartBest, "price_fallback")
  ELSE Decided("walmart", krogerBest, walmartBest, "price_fallback")
\* chooseWinnerForIngredient with equal offers going to Walmart
chooseWinnerTieToWalmart(kArr, wArr) ==
  chooseBetweenTieToWalmart(bestComparableOffer(kArr), bestComparableOffer(wArr))
chooseWinnerForIngredient(kArr, wArr) ==
  chooseBetween(bestComparableOffer(kArr), bestComparableOffer(wArr))
\* the products of one ingredient as bestComparableOffer reads them; the
\* titles of the catalog records name no quantity
offeredOf(products) ==
  [j \in 1..Len(products) |-> Offered(products[j].price, products[j].size, NoText)]
\* a loop of budget mode that keeps the products of both retailers
budgetEntryKeepsBoth(acc, ing, kArr, wArr, d) ==
  [finalKroger |-> IF kArr # <<>> THEN MapSet(acc.finalKroger, ing, kArr)
                   ELSE acc.finalKroger,
   finalWalmart |-> IF wArr # <<>> THEN MapSet(acc.finalWalmart, ing, wArr)
                    ELSE acc.finalWalmart,
   matchedInKroger |-> IF kArr # <<>> /\ ing \notin Range(acc.matchedInKroger)
                         THEN Append(acc.matchedInKroger, ing) ELSE acc.matchedInKroger,
   matchedInWalmart |-> IF wArr # <<>> /\ ing \notin Range(acc.matchedInWalmart)
                          THEN Append(acc.matchedInWalmart, ing) ELSE acc.matchedInWalmart,
   budgetDecisions |-> Append(acc.budgetDecisions,
                              [ingredient |-> ing, winner |-> d.winner, reason |-> d.reason])]
\* one iteration of budget mode's loop: with decision d for ingredient ing
\* the winner's products are kept under the ingredient
budgetEntry(acc, ing, kArr, wArr, d) ==
  [finalKroger |-> IF d.winner = "kroger" /\ kArr # <<>>
                     THEN MapSet(acc.finalKroger, ing, kArr) ELSE acc.finalKroger,
   finalWalmart |-> IF d.winner = "walmart" /\ wArr # <<>>
                      THEN MapSet(acc.finalWalmart, ing, wArr) ELSE acc.finalWalmart,
   matchedInKroger |-> IF d.winner = "kroger" /\ kArr # <<>>
                             /\ ing \notin Range(acc.matchedInKroger)
                         THEN Append(acc.matchedInKroger, ing) ELSE acc.matchedInKroger,
   matchedInWalmart |-> IF d.winner = "walmart" /\ wArr # <<>>
                              /\ ing \notin Range(acc.matchedInWalmart)
                          THEN Append(acc.matchedInWalmart, ing) ELSE acc.matchedInWalmart,
   budgetDecisions |-> Append(acc.budgetDecisions,
                              [ingredient |-> ing, winner |-> d.winner, reason |-> d.reason])]
\* the loop of budget mode over the ingredients
RECURSIVE budgetLoop(_, _, _, _)
budgetLoop(ings, kBy, wBy, acc) ==
  IF ings = <<>> THEN acc
  ELSE budgetLoop(Tail(ings), kBy, wBy,
         budgetEntry(acc, Head(ings), PoolOf(kBy, Head(ings)), PoolOf(wBy, Head(ings)),
                     chooseWinnerForIngredient(offeredOf(PoolOf(kBy, Head(ings))),
                                               offeredOf(PoolOf(wBy, Head(ings))))))
\* Object.values of a per-ingredient map, flattened in key order
RECURSIVE flatValues(_, _)
flatValues(keys, byIng) ==
  IF keys = <<>> THEN <<>> ELSE PoolOf(byIng, Head(keys)) \o flatValues(Tail(keys), byIng)
NoBudget ==
  [finalKroger |-> EmptyMap, finalWalmart |-> EmptyMap, matchedInKroger |-> <<>>,
   matchedInWalmart |-> <<>>, budgetDecisions |-> <<>>]
\* the budget payload, from the Kroger result k and what the loop kept (b)
budgetPayloadOf(k, b) ==
  [budgetSearch |-> TRUE, dishName |-> k.dishName, ingredients |-> k.ingredients,
   krogerProducts |-> flatValues(b.matchedInKroger, b.finalKroger),
   walmartProducts |-> flatValues(b.matchedInWalmart, b.finalWalmart),
   matchedInKroger |-> b.matchedInKroger, matchedInWalmart |-> b.matchedInWalmart,
   krogerByIngredient |-> b.finalKroger, walmartByIngredient |-> b.finalWalmart,
   unmatchedTerms |-> extractUnmatchedTerms(k.warnings), warnings |-> k.warnings,
   budgetDecisions |-> b.budgetDecisions]
\* buildFinalPayload(krogerResult, walmartResult, {budgetSearch: true})
buildBudgetPayload(k, w) ==
  budgetPayloadOf(k, budgetLoop(k.ingredients, k.krogerMatchedByIngredient, w.byIngredient,
                                NoBudget))
\* the payload of either mode
finalPayload(budgetSearch, k, w) ==
  IF budgetSearch THEN buildBudgetPayload(k, w) ELSE buildFinalPayload(k, w)
\* the arrays of the last call and what it returned
Called(kArr, wArr, result) == [kArr |-> kArr, wArr |-> wArr, result |-> result]
NoDecision == Called(<<>>, <<>>, Decided("none", <<>>, <<>>, "none"))
\* the products the two retailers may hold for one ingredient
WinnerProducts ==
  { Offered(4, SizeText(1, 16, "oz"), NoText),
    Offered(2, SizeText(1, 8, "oz"), NoText),
    Offered(3, SizeText(1, 16, "fl oz"), NoText),
    Offered(3, NoText, NoText),
    Offered(3, NoText, SizeText(1, 1, "lb")),
    Offered(5, SizeText(2, 8, "oz"), SizeText(1, 12, "ct")) }
\* budget mode decides for an ingredient whose Kroger (Walmart) matches
\* have grown by one product
decideWithKroger(p) ==
  /\ Len(decision.kArr) < MaxOffers
  /\ decision' = LET kArr == Append(decision.kArr, p)
                 IN  Called(kArr, decision.wArr,
                            chooseWinnerForIngredient(kArr, decision.wArr))
  /\ UNCHANGED <<redis, req, warm, served, expiries, redisUp, other, answers, measure, call, lastOffer, kcart, history, cartVars>>
decideWithWalmart(p) ==
  /\ Len(decision.wArr) < MaxOffers
  /\ decision' = LET wArr == Append(decision.wArr, p)
                 IN  Called(decision.kArr, wArr,
                            chooseWinnerForIngredient(decision.kArr, wArr))
  /\ UNCHANGED <<redis, req, warm, served, expiries, redisUp, other, answers, measure, call, lastOffer, kcart, history, cartVars>>

(* --------------------- one krogerSearch request ---------------------- *)
CacheFamilies == { "dish", "llm1", "llm2", "loc", "ksearch", "wsearch" }
EmptyRedis == [f \in CacheFamilies |-> EmptyMap]
redisSet(store, family, key, value) == [store EXCEPT ![family] = MapSet(@, key, value)]

IdleReq ==
  [ pc |-> "idle", query |-> "", zip |-> "", dishName |-> NoDish, ingredients |-> <<>>,
    locationId |-> NoLoc, i |-> 0, titlesByIng |-> EmptyMap, fullByIng |-> EmptyMap,
    warnings |-> <<>>, kroger |-> earlyPayload(NoDish, <<>>, <<>>),
    terms |-> <<>>, wi |-> 0, wTitles |-> EmptyMap, wFull |-> EmptyMap,
    payload |-> buildFinalPayload(earlyPayload(NoDish, <<>>, <<>>), NoWalmart),
    status |-> 0, oracleCalls |-> 0, catalogCalls |-> 0, cold |-> FALSE,
    budgetSearch |-> FALSE,       \* Boolean(req.body.budgetSearch)
    \* what went wrong on the way: a Redis call rejected, an oracle or catalog
    \* call failed, the terms whose Kroger catalog search failed
    cacheFailed |-> FALSE, upstreamFailed |-> FALSE, searchFailed |-> {},
    \* the final_picks the Walmart oracle answered to this request
    wPicks |-> <<>> ]

\* the request once runKrogerSearchPipeline has returned: its locals are gone
KrogerReturned(rq) ==
  [rq EXCEPT !.dishName = NoDish, !.ingredients = <<>>, !.locationId = NoLoc, !.i = 0,
             !.titlesByIng = EmptyMap, !.fullByIng = EmptyMap, !.warnings = <<>>,
             !.searchFailed = {}]

\* the request once runWalmartMatchByIndexDetailed has returned
WalmartReturned(rq) ==
  [rq EXCEPT !.terms = <<>>, !.wi = 0, !.wTitles = EmptyMap, !.wFull = EmptyMap]

\* no request has been answered yet: first holds the payloads answered to the
\* two overlapping requests, later the payloads answered after both
NoAnswers == [first |-> <<>>, later |-> {}]

\* addToKrogerCart has not run: the snapshot and the remote cart are empty
\* threw and repeated remember whether a remote call of some request was
\* rejected and whether some request named a UPC twice
EmptyKcart ==
  [snapshot |-> EmptyMap, remote |-> EmptyMap, requests |-> 0, status |-> 0,
   threw |-> FALSE, repeated |-> FALSE]

\* no catalog search has failed yet
NoHistory == [failed |-> {}, lapsed |-> {}]

PipeInit ==
  /\ redis = EmptyRedis
  /\ req = IdleReq
  /\ warm = EmptyMap
  /\ served = 0
  /\ expiries = 0
  /\ redisUp = TRUE
  /\ other = IdleReq
  /\ answers = NoAnswers
  /\ decision = NoDecision
  /\ measure = NoMeasure
  /\ call = IdleCall
  /\ lastOffer = NoOffer
  /\ kcart = EmptyKcart
  /\ history = NoHistory

InputOf(rq) == [query |-> rq.query, zip |-> rq.zip]

\* what the index-match oracle may answer for ingList: no picks at all, or
\* one entry per ingredient
OracleRepliesFrom(ingList, lists) ==
  { <<>> } \cup
  { [j \in 1..Len(ingList) |-> [ingredient |-> ingList[j], indices |-> f[j]]] :
      f \in [1..Len(ingList) -> lists] }
OracleReplies(ingList) == OracleRepliesFrom(ingList, IndexLists)

\* a request arrives at POST /kroger/search (no budgetSearch, no autoAdd)
krogerSearchStart(q, z) ==
  /\ req.pc = "idle"
  /\ served < MaxRequests
  /\ req' = [IdleReq EXCEPT !.pc = "dishcache", !.query = q, !.zip = z]
  /\ UNCHANGED <<redis, warm, served, expiries, auxVars, cartVars>>

\* the first request of a deployment: the caches are empty
firstSearchStart(q, z) == served = 0 /\ krogerSearchStart(q, z)

\* the first request of a deployment asks for budget mode
budgetSearchStart(q, z) ==
  /\ req.pc = "idle"
  /\ served = 0
  /\ req' = [IdleReq EXCEPT !.pc = "dishcache", !.query = q, !.zip = z, !.budgetSearch = TRUE]
  /\ UNCHANGED <<redis, warm, served, expiries, auxVars, cartVars>>

\* krogerSearch after runKrogerSearchPipeline returned k: the Walmart terms;
\* with no term runWalmartMatchByIndexDetailed returns at once
ToWalmart(rq, k) ==
  LET chosen == IF rq.budgetSearch THEN k.ingredients ELSE walmartTerms(k)
      terms == Dedupe(SelectSeq(chosen, LAMBDA t : t # "")) IN
  IF terms = <<>>
    THEN [KrogerReturned(rq) EXCEPT !.kroger = k,
                                    !.payload = finalPayload(rq.budgetSearch, k, NoWalmart),
                                    !.status = 200, !.pc = "responded"]
    ELSE [KrogerReturned(rq) EXCEPT !.kroger = k, !.terms = terms, !.wi = 1,
                                    !.pc = "walmart_fetch"]

\* the auto-add plan krogerSearch builds from the payload
autoAddPlan(payload) ==
  LET withUpc == SelectSeq(payload.krogerProducts, LAMBDA pr : pr.upc # "")
  IN  [j \in 1..Len(withUpc) |-> [upc |-> withUpc[j].upc, quantity |-> 1]]

\* redis.get(fastKey) and JSON.parse: the cached payload, as a sequence of
\* length 0 or 1
dishCacheGet(store, key) == IF Has(store.dish, key) THEN <<store.dish[key]>> ELSE <<>>

\* runKrogerSearchPipeline: the dish cache read
dishCacheRead ==
  /\ req.pc = "dishcache"
  /\ redisUp
  /\ LET fast == dishCacheGet(redis, fastKey(req.query, req.zip, ChooseMax)) IN
       req' = IF fast # <<>> THEN ToWalmart(req, fast[1])
              ELSE [req EXCEPT !.pc = "llm1"]
  /\ UNCHANGED <<redis, warm, served, expiries, auxVars, cartVars>>

\* Extracted with the first term always taken as the dish name
ExtractedFirstIsDish(rq, store, arr) ==
  LET dishDetected == Len(arr) >= 1
      dishName == IF dishDetected THEN arr[1] ELSE NoDish
      ingredients == IF dishDetected THEN Tail(arr) ELSE arr
      r2 == [rq EXCEPT !.dishName = dishName, !.ingredients = ingredients]
      early == earlyPayload(dishName, <<>>, << Warning("", "no_ingredients") >>)
  IN  IF ingredients = <<>>
        THEN [req |-> ToWalmart(r2, early),
              redis |-> redisSet(store, "dish", fastKey(rq.query, rq.zip, ChooseMax), early)]
        ELSE [req |-> [r2 EXCEPT !.pc = "location"], redis |-> store]
\* Extracted with the early return reporting no_candidates
ExtractedOtherWarning(rq, store, arr) ==
  LET dishDetected == Len(arr) > 1
      dishName == IF dishDetected THEN arr[1] ELSE NoDish
      ingredients == IF dishDetected THEN Tail(arr) ELSE arr
      r2 == [rq EXCEPT !.dishName = dishName, !.ingredients = ingredients]
      early == earlyPayload(dishName, <<>>, << Warning("", "no_candidates") >>)
  IN  IF ingredients = <<>>
        THEN [req |-> ToWalmart(r2, early),
              redis |-> redisSet(store, "dish", fastKey(rq.query, rq.zip, ChooseMax), early)]
        ELSE [req |-> [r2 EXCEPT !.pc = "location"], redis |-> store]
\* the request after LLM1 gave arr: dish name and ingredients, and the early
\* return when there is no ingredient
Extracted(rq, store, arr) ==
  LET dishDetected == Len(arr) > 1
      dishName == IF dishDetected THEN arr[1] ELSE NoDish
      ingredients == IF dishDetected THEN Tail(arr) ELSE arr
      r2 == [rq EXCEPT !.dishName = dishName, !.ingredients = ingredients]
      early == earlyPayload(dishName, <<>>, << Warning("", "no_ingredients") >>)
  IN  IF ingredients = <<>>
        THEN [req |-> ToWalmart(r2, early),
              redis |-> redisSet(store, "dish", fastKey(rq.query, rq.zip, ChooseMax), early)]
        ELSE [req |-> [r2 EXCEPT !.pc = "location"], redis |-> store]



\* runKrogerSearchPipeline: ingredient extraction, through the LLM1 cache;
\* results are the arrays the oracle may answer
extractIngredientsFrom(results) ==
  /\ req.pc = "llm1"
  /\ redisUp
  /\ LET key == keyLLM1(req.query) IN
     IF Has(redis.llm1, key) THEN
       LET nx == Extracted(req, redis, redis.llm1[key]) IN
         req' = nx.req /\ redis' = nx.redis
     ELSE
       \/ \E res \in results :
            LET nx == Extracted([req EXCEPT !.oracleCalls = @ + 1],
                                redisSet(redis, "llm1", key, res), res) IN
              req' = nx.req /\ redis' = nx.redis
       \/ \* openai.responses.create rejects: the catch block of krogerSearch
          /\ req' = [KrogerReturned(req) EXCEPT !.pc = "failed", !.status = 500,
                                               !.oracleCalls = @ + 1,
                                               !.upstreamFailed = TRUE]
          /\ UNCHANGED redis
  /\ UNCHANGED <<warm, served, expiries, auxVars, cartVars>>

extractIngredients == extractIngredientsFrom(Llm1Results)

\* getLocationIdByZip(zip || KROGER_DEFAULT_ZIP), a throw giving null
resolveLocation ==
  /\ req.pc = "location"
  /\ redisUp
  /\ LET key == locKey(IF req.zip # "" THEN req.zip ELSE DefaultZip) IN
     IF Has(redis.loc, key) THEN
       /\ req' = [req EXCEPT !.locationId = redis.loc[key], !.i = 1, !.pc = "fetch"]
       /\ UNCHANGED redis
     ELSE
       \E id \in Locations :
         /\ req' = [req EXCEPT !.locationId = id, !.i = 1, !.pc = "fetch"]
         /\ redis' = IF id # NoLoc THEN redisSet(redis, "loc", key, id) ELSE redis
  /\ UNCHANGED <<warm, served, expiries, auxVars, cartVars>>

\* the request after the candidate list of ingredient i is known; after the
\* last ingredient, the early return when no ingredient has a candidate
Fetched(rq, store, list, warn) ==
  LET ing == rq.ingredients[rq.i]
      titles == Take([j \in 1..Len(list) |-> list[j].description], PassCount)
      ws == rq.warnings \o warn
              \o (IF titles = <<>> /\ warn = <<>> THEN << Warning(ing, "no_candidates") >>
                  ELSE <<>>)
      r2 == [rq EXCEPT !.fullByIng = MapSet(@, ing, list),
                       !.titlesByIng = MapSet(@, ing, titles),
                       !.warnings = ws, !.i = @ + 1]
      early == earlyPayload(r2.dishName, r2.ingredients, r2.warnings)
  IN  IF rq.i < Len(rq.ingredients) THEN [req |-> r2, redis |-> store]
      ELSE IF WithCandidates(r2.ingredients, r2.titlesByIng) = <<>>
        THEN [req |-> ToWalmart(r2, early),
              redis |-> redisSet(store, "dish", fastKey(rq.query, rq.zip, ChooseMax), early)]
      ELSE [req |-> [r2 EXCEPT !.pc = "match"], redis |-> store]

\* one iteration of the candidate loop: Kroger.searchProductsByTerm; pools
\* are the lists the catalog may answer with
fetchCandidatesStep(pools) ==
  /\ req.pc = "fetch"
  /\ redisUp
  /\ LET ing == req.ingredients[req.i]
         limit == IF PassCount > 20 THEN PassCount ELSE 20
         key == krogerSearchKey(ing, req.locationId, limit) IN
     IF Has(redis.ksearch, key) THEN
       LET nx == Fetched(req, redis, redis.ksearch[key], <<>>) IN
         req' = nx.req /\ redis' = nx.redis
     ELSE
       \/ \* the list of the answer (of the request or of its fallback)
          \E list \in pools :
            LET nx == Fetched([req EXCEPT !.catalogCalls = @ + 1],
                              redisSet(redis, "ksearch", key, list), list, <<>>) IN
              req' = nx.req /\ redis' = nx.redis
       \/ \* the request fails and no fallback is tried (a 4xx, a timeout,
          \* no location): the negative entry [] is cached and returned
          LET nx == Fetched([req EXCEPT !.catalogCalls = @ + 1,
                                        !.upstreamFailed = TRUE,
                                        !.searchFailed = @ \cup {ing}],
                            redisSet(redis, "ksearch", key, <<>>), <<>>, <<>>) IN
            req' = nx.req /\ redis' = nx.redis
       \/ \* the request and its fallback without location fail: caught by the loop
          /\ req.locationId # NoLoc
          /\ LET nx == Fetched([req EXCEPT !.catalogCalls = @ + 1,
                                           !.upstreamFailed = TRUE,
                                           !.searchFailed = @ \cup {ing}],
                               redis, <<>>,
                               << Warning(ing, "product_search_failed") >>) IN
               req' = nx.req /\ redis' = nx.redis
  /\ UNCHANGED <<warm, served, expiries, cartVars>>

fetchCandidatesFrom(pools) == fetchCandidatesStep(pools) /\ UNCHANGED auxVars
fetchCandidates == fetchCandidatesFrom(KrogerPools)

\* the same iteration, with the searches that failed in it remembered
fetchCandidatesNoted ==
  /\ fetchCandidatesStep(KrogerPools)
  /\ history' = [history EXCEPT !.failed =
                   @ \cup { [zip |-> req.zip, ingredient |-> g] :
                              g \in req'.searchFailed \ req.searchFailed }]
  /\ UNCHANGED <<redisUp, other, answers, decision, measure, call, lastOffer, kcart>>

\* redis.get(keyLLM2) and safeJSONParse: the cached final_picks, as a
\* sequence of length 0 or 1
llm2CacheGet(store, key) == IF Has(store.llm2, key) THEN <<store.llm2[key]>> ELSE <<>>

\* the request after the Kroger index picks are known: resolution against
\* fullByIng, the dish cache write, the return
Matched(rq, store, entries) ==
  LET k == resultPayload(rq, entries) IN
  [req |-> ToWalmart(rq, k),
   redis |-> redisSet(store, "dish", fastKey(rq.query, rq.zip, ChooseMax), k)]

\* runKrogerSearchPipeline: index match, through the LLM2 cache; lists are
\* the index lists the oracle may pick
indexMatchFrom(lists) ==
  /\ req.pc = "match"
  /\ redisUp
  /\ LET ingList == WithCandidates(req.ingredients, req.titlesByIng)
         key == keyLLM2(ingList, req.titlesByIng, ChooseMax)
         cached == llm2CacheGet(redis, key) IN
     IF cached # <<>> THEN
       LET nx == Matched(req, redis, cached[1]) IN
         req' = nx.req /\ redis' = nx.redis
     ELSE
       \/ \E reply \in OracleRepliesFrom(ingList, lists) :
            LET nx == Matched([req EXCEPT !.oracleCalls = @ + 1],
                              redisSet(redis, "llm2", key, reply), reply) IN
              req' = nx.req /\ redis' = nx.redis
       \/ /\ req' = [KrogerReturned(req) EXCEPT !.pc = "failed", !.status = 500,
                                               !.oracleCalls = @ + 1,
                                               !.upstreamFailed = TRUE]
          /\ UNCHANGED redis
  /\ UNCHANGED <<warm, served, expiries, auxVars, cartVars>>

indexMatch == indexMatchFrom(IndexLists)

\* the request after the Walmart items of term wi are known
WFetched(rq, items) ==
  LET term == rq.terms[rq.wi]
      titles == Take(SelectSeq([j \in 1..Len(items) |-> items[j].name], LAMBDA t : t # ""),
                     PassCount)
  IN  [rq EXCEPT !.wFull = MapSet(@, term, items), !.wTitles = MapSet(@, term, titles),
                 !.wi = @ + 1,
                 !.pc = IF rq.wi < Len(rq.terms) THEN "walmart_fetch" ELSE "walmart_match"]

\* one iteration of the Walmart candidate loop: rawSearch(term); pools are
\* the item lists the catalog may answer with
walmartFetchFrom(pools) ==
  /\ req.pc = "walmart_fetch"
  /\ redisUp
  /\ LET key == walmartCacheKey(req.terms[req.wi]) IN
     IF Has(redis.wsearch, key) THEN
       /\ req' = WFetched(req, redis.wsearch[key])
       /\ UNCHANGED redis
     ELSE
       \* the items of the answer, or on a failure the negative entry []
       \E items \in pools :
         /\ req' = WFetched([req EXCEPT !.catalogCalls = @ + 1], items)
         /\ redis' = redisSet(redis, "wsearch", key, items)
  /\ UNCHANGED <<warm, served, expiries, auxVars, cartVars>>

walmartFetch == walmartFetchFrom(WalmartPools)

\* runWalmartMatchByIndexDetailed: the oracle call, the resolution, and
\* buildFinalPayload in krogerSearch; lists are the index lists the oracle
\* may pick
walmartMatchFrom(lists) ==
  /\ req.pc = "walmart_match"
  /\ \/ \E reply \in OracleRepliesFrom(req.terms, lists) :
          LET entries == SelectSeq(reply, LAMBDA e : e.ingredient \in Range(req.terms))
          IN  req' = [WalmartReturned(req) EXCEPT
                        !.oracleCalls = @ + 1, !.wPicks = entries,
                        !.payload = finalPayload(req.budgetSearch, req.kroger,
                                                 walmartResult(req, entries)),
                        !.status = 200, !.pc = "responded"]
     \/ req' = [WalmartReturned(req) EXCEPT !.pc = "failed", !.status = 500,
                                            !.oracleCalls = @ + 1,
                                            !.upstreamFailed = TRUE]
  /\ UNCHANGED <<redis, warm, served, expiries, auxVars, cartVars>>

walmartMatch == walmartMatchFrom(IndexLists)

\* res.json(payload), or the 500 of the catch block
respond ==
  /\ req.pc \in {"responded", "failed"}
  /\ warm' = IF req.pc = "responded" /\ ~req.cold
               THEN MapSet(warm, InputOf(req), req.payload) ELSE warm
  /\ served' = served + 1
  /\ req' = IdleReq
  /\ UNCHANGED <<redis, expiries, auxVars, cartVars>>

\* Redis drops the entries whose TTL ran out: the catalog search entries
\* (10 minutes to 12 hours); the location (7 days) and oracle (30 days)
\* entries outlive the requests looked at, the dish cache has no TTL
expireStep ==
  /\ expiries < MaxExpiries
  /\ redis' = [redis EXCEPT !.ksearch = EmptyMap, !.wsearch = EmptyMap]
  /\ redis' # redis
  /\ expiries' = expiries + 1
  /\ warm' = EmptyMap
  /\ req' = IF req.pc = "idle" THEN req ELSE [req EXCEPT !.cold = TRUE]
  /\ UNCHANGED <<served, cartVars>>
expire == expireStep /\ UNCHANGED auxVars

\* the same expiry, remembered for the searches that had failed before it
expireNoted ==
  /\ expireStep
  /\ history' = [history EXCEPT !.lapsed = history.failed]
  /\ UNCHANGED <<redisUp, other, answers, decision, measure, call, lastOffer, kcart>>

\* the steps of a request that has arrived
RequestWork ==
  \/ dishCacheRead
  \/ extractIngredients
  \/ resolveLocation
  \/ fetchCandidates
  \/ indexMatch
  \/ walmartFetch
  \/ walmartMatch
  \/ respond

PipeStep ==
  \/ \E q \in Queries, z \in Zips : krogerSearchStart(q, z)
  \/ RequestWork
  \/ expire

(* ----------------------------- Redis outage -------------------------- *)
\* the Redis server stops answering, and answers again: from then on
\* redis.get and redis.set reject
redisFail ==
  /\ redisUp
  /\ req.pc # "idle"
  /\ redisUp' = FALSE
  /\ UNCHANGED <<redis, req, warm, served, expiries, other, answers, decision, measure, call, lastOffer, kcart, history, cartVars>>

redisRecover ==
  /\ ~redisUp
  /\ redisUp' = TRUE
  /\ UNCHANGED <<redis, req, warm, served, expiries, other, answers, decision, measure, call, lastOffer, kcart, history, cartVars>>

\* the dish cache read rejects: caught and logged, the pipeline goes on
dishCacheReadDown ==
  /\ req.pc = "dishcache"
  /\ ~redisUp
  /\ req' = [req EXCEPT !.pc = "llm1", !.cacheFailed = TRUE]
  /\ UNCHANGED <<redis, warm, served, expiries, auxVars, cartVars>>

\* redis.get(keyLLM1) rejects: nothing catches it before krogerSearch does
extractIngredientsDown ==
  /\ req.pc = "llm1"
  /\ ~redisUp
  /\ req' = [KrogerReturned(req) EXCEPT !.pc = "failed", !.status = 500,
                                        !.cacheFailed = TRUE]
  /\ UNCHANGED <<redis, warm, served, expiries, auxVars, cartVars>>

\* redis.get in getLocationIdByZip rejects: caught, locationId stays null
resolveLocationDown ==
  /\ req.pc = "location"
  /\ ~redisUp
  /\ req' = [req EXCEPT !.locationId = NoLoc, !.i = 1, !.pc = "fetch",
                        !.cacheFailed = TRUE]
  /\ UNCHANGED <<redis, warm, served, expiries, auxVars, cartVars>>

\* redis.get in searchProductsByTerm rejects: caught by the candidate
\* loop as a failed search; the dish cache write of an early return fails
\* silently
fetchCandidatesDown ==
  /\ req.pc = "fetch"
  /\ ~redisUp
  /\ LET ing == req.ingredients[req.i]
         nx == Fetched([req EXCEPT !.cacheFailed = TRUE], redis, <<>>,
                       << Warning(ing, "product_search_failed") >>) IN
       req' = nx.req
  /\ UNCHANGED <<redis, warm, served, expiries, auxVars, cartVars>>

\* redis.get(keyLLM2) rejects: nothing catches it before krogerSearch does
indexMatchDown ==
  /\ req.pc = "match"
  /\ ~redisUp
  /\ req' = [KrogerReturned(req) EXCEPT !.pc = "failed", !.status = 500,
                                        !.cacheFailed = TRUE]
  /\ UNCHANGED <<redis, warm, served, expiries, auxVars, cartVars>>

\* rawSearch: both Redis calls are wrapped, the catalog is asked
walmartFetchDown ==
  /\ req.pc = "walmart_fetch"
  /\ ~redisUp
  /\ \E items \in WalmartPools :
       req' = WFetched([req EXCEPT !.catalogCalls = @ + 1, !.cacheFailed = TRUE], items)
  /\ UNCHANGED <<redis, warm, served, expiries, auxVars, cartVars>>

OutageStep ==
  \/ redisFail
  \/ redisRecover
  \/ dishCacheReadDown
  \/ extractIngredientsDown
  \/ resolveLocationDown
  \/ fetchCandidatesDown
  \/ indexMatchDown
  \/ walmartFetchDown

(* ------------------- pools with look-alike records ------------------- *)
\* catalog answers in which titles repeat, differ by case only, or are
\* missing, and the picks the oracle may make in them
MatchLlm1Results == { <<"egg">>, <<"omelette", "egg">> }
MatchKrogerPools ==
  { <<>>, << KP("Milk", "a"), KP("milk", "b"), KP("Milk", "c") >> }
MatchWalmartPools ==
  { << WP("", 1), WP("Milk", 2), WP("milk", 3) >>, << WP("Milk", 4), WP("milk", 5) >> }
MatchIndexLists == { <<0>>, <<1>>, <<2, 0>>, <<3>>, <<0, 1, 2>> }

MatchStep ==
  \/ \E q \in Queries, z \in Zips : firstSearchStart(q, z)
  \/ dishCacheRead
  \/ extractIngredientsFrom(MatchLlm1Results)
  \/ resolveLocation
  \/ fetchCandidatesFrom(MatchKrogerPools)
  \/ indexMatchFrom(MatchIndexLists)
  \/ walmartFetchFrom(MatchWalmartPools)
  \/ walmartMatchFrom(MatchIndexLists)
  \/ respond

(* --------------------- both modes of one request --------------------- *)
\* what the oracles and catalogs answer to a request of either mode
ModeLlm1Results == { <<"egg">>, <<"omelette", "egg", "Milk">> }
ModeKrogerPools ==
  { <<>>, << KPriced("t1", "a", 4, SizeText(1, 16, "oz")),
             KPriced("t2", "b", 2, NoText) >> }
ModeWalmartPools == { <<>>, << WPriced("t1", 1, 3, SizeText(1, 1, "lb")) >> }
ModeIndexLists == { <<0>>, <<2>> }

ModeStep ==
  \/ \E q \in Queries, z \in Zips : firstSearchStart(q, z) \/ budgetSearchStart(q, z)
  \/ dishCacheRead
  \/ extractIngredientsFrom(ModeLlm1Results)
  \/ resolveLocation
  \/ fetchCandidatesFrom(ModeKrogerPools)
  \/ indexMatchFrom(ModeIndexLists)
  \/ walmartFetchFrom(ModeWalmartPools)
  \/ walmartMatchFrom(ModeIndexLists)
  \/ respond

(* ------------------------ overlapping requests ----------------------- *)
OverlapCount == 2               \* requests in flight together

\* what the oracles and catalogs answer while requests overlap
OverlapLlm1Results == { <<"egg">>, <<"omelette", "egg">> }
OverlapKrogerPools == { <<>>, << KP("t1", "a"), KP("t2", "b") >> }
OverlapWalmartPools == { << WP("t1", 1), WP("t2", 2) >> }
OverlapIndexLists == { <<0>>, <<2>> }

\* Node runs one continuation at a time: req is the request whose
\* continuation runs next, other the request suspended at an await; the
\* event loop may resume either
resume ==
  /\ other.pc # "idle" \/ req.pc # "idle"
  /\ req' = other
  /\ other' = req
  /\ UNCHANGED <<redis, warm, served, expiries, redisUp, answers, decision, measure, call, lastOffer, kcart, history, cartVars>>

\* the two requests arrive before either is answered
overlapStart(q, z) ==
  /\ req.pc = "idle"
  /\ served = 0
  /\ req' = [IdleReq EXCEPT !.pc = "dishcache", !.query = q, !.zip = z]
  /\ UNCHANGED <<redis, warm, served, expiries, auxVars, cartVars>>

\* a request that arrives after both were answered, one at a time
laterStart(q, z) ==
  /\ req.pc = "idle" /\ other.pc = "idle"
  /\ served >= OverlapCount
  /\ served < OverlapCount + MaxLater
  /\ req' = [IdleReq EXCEPT !.pc = "dishcache", !.query = q, !.zip = z]
  /\ UNCHANGED <<redis, warm, served, expiries, auxVars, cartVars>>

\* res.json(payload) or the 500, with the answered payload written down
respondNoted ==
  /\ req.pc \in {"responded", "failed"}
  /\ answers' =
       IF req.pc = "failed" THEN answers
       ELSE IF served < OverlapCount
         THEN [answers EXCEPT !.first = Append(@, req.payload)]
         ELSE [answers EXCEPT !.later = @ \cup {req.payload}]
  /\ served' = served + 1
  /\ req' = IdleReq
  /\ UNCHANGED <<redis, warm, expiries, redisUp, other, decision, measure, call, lastOffer, kcart, history, cartVars>>

OverlapStep ==
  \/ \E q \in Queries : overlapStart(q, DefaultZip)
  \/ \E q \in Queries : laterStart(q, DefaultZip)
  \/ resume
  \/ dishCacheRead
  \/ extractIngredientsFrom(OverlapLlm1Results)
  \/ resolveLocation
  \/ fetchCandidatesFrom(OverlapKrogerPools)
  \/ indexMatchFrom(OverlapIndexLists)
  \/ walmartFetchFrom(OverlapWalmartPools)
  \/ walmartMatchFrom(OverlapIndexLists)
  \/ respondNoted

(* --------------------------- specifications -------------------------- *)
\* the steps of addKrogerItemsToCart
Engine(r) ==
  \/ addKrogerItemsToCartBegin(r)
  \/ tokenRefresh(r)
  \/ attempt(r)
  \/ itemRefresh(r)
  \/ retry(r)
  \/ saveAndReturn(r)

RunStep(r) ==
  \/ \E plan \in PlanInputs : krogerSearchAutoAdd(r, plan)
  \/ Engine(r)

\* one auto-add request at a time
Init == CartInit /\ PipeInit
Next == Tick({1}) \/ RunStep(1) \/ Callback
Spec == Init /\ [][Next]_vars

\* one auto-add request whose every awaited call settles: a token exchange,
\* a cart call, the backoff and the save each return to the handler
SpecLive ==
  /\ Spec
  /\ WF_vars(tokenRefresh(1)) /\ WF_vars(attempt(1)) /\ WF_vars(itemRefresh(1))
  /\ WF_vars(retry(1)) /\ WF_vars(saveAndReturn(1))

\* two auto-add requests of the same user in flight at once; the plans are
\* the ones krogerSearch builds: every item with quantity 1
ConcItemChoices == { [upc |-> "a", quantity |-> 1], [upc |-> "b", quantity |-> 1] }
ConcPlans == SeqsUpTo(ConcItemChoices, MaxConcItems)
ConcStep(r) ==
  \/ \E plan \in ConcPlans : krogerSearchAutoAdd(r, plan)
  \/ Engine(r)
NextConc == \E r \in Runs : ConcStep(r)
SpecConc == Init /\ [][NextConc]_vars

\* krogerSearch requests (no budgetSearch, no autoAdd), one at a time
InitPipe ==
  /\ PipeInit
  /\ now = 0 /\ db = EmptyDoc /\ tokCount = 1 /\ cb = NoCb
  /\ run = [r \in Runs |-> IdleRun]
NextPipe == PipeStep
SpecPipe == InitPipe /\ [][NextPipe]_vars

\* two krogerSearch requests for the same query in flight together, then
\* requests for that query one at a time
NextOverlap == OverlapStep
SpecOverlap == InitPipe /\ [][NextOverlap]_vars

\* the first krogerSearch request of a deployment, against catalogs whose
\* answers hold look-alike records
NextMatch == MatchStep
SpecMatch == InitPipe /\ [][NextMatch]_vars

\* the first krogerSearch request of a deployment, on an empty cache, while
\* the Redis server may stop answering
NextOutage ==
  \/ \E q \in Queries, z \in Zips : firstSearchStart(q, z)
  \/ RequestWork
  \/ OutageStep
SpecOutage == InitPipe /\ [][NextOutage]_vars

\* budget mode's winner for one ingredient, over every pair of arrays
NextWinner == \E p \in WinnerProducts : decideWithKroger(p) \/ decideWithWalmart(p)
SpecWinner == InitPipe /\ [][NextWinner]_vars

\* bestComparableOffer reads one product after another
NextParse == \E p \in OfferProducts : buildOffer(p)
SpecParse == InitPipe /\ [][NextParse]_vars

(* ----------------------- POST /kroger/cart/add ------------------------ *)
MaxCartItems == 2      \* items in one request body
MaxCartRequests == 3   \* requests in one behaviour
Upcs == { "a", "b" }
Deltas == -2..2
\* it.quantity: absent (<<>>) or an integer
CartItems == [upc : Upcs, quantity : {<<>>} \cup { <<d>> : d \in Deltas }]
CartBodies == UNION { [1..n -> CartItems] : n \in 0..MaxCartItems }
MapDelete(map, k) == [x \in (DOMAIN map) \ {k} |-> map[x]]

\* the loop over the items: the in-memory snapshot, toRemove and toAdd
RECURSIVE partitionWork(_, _, _, _)
partitionWork(items, snapshot, toRemove, toAdd) ==
  IF items = <<>> THEN [snapshot |-> snapshot, toRemove |-> toRemove, toAdd |-> toAdd]
  ELSE LET upc == Head(items).upc
           delta == IF Head(items).quantity = <<>> THEN 1 ELSE Head(items).quantity[1]
           prev == MapGet(snapshot, upc)
           desired == IF prev + delta > 0 THEN prev + delta ELSE 0
       IN  IF delta >= 0
             THEN partitionWork(Tail(items), MapSet(snapshot, upc, prev + delta), toRemove,
                    IF delta > 0 THEN Append(toAdd, [upc |-> upc, quantity |-> delta])
                    ELSE toAdd)
           ELSE partitionWork(Tail(items),
                  IF desired > 0 THEN MapSet(snapshot, upc, desired)
                  ELSE MapDelete(snapshot, upc),
                  Append(toRemove, [upc |-> upc]),
                  IF desired > 0 THEN Append(toAdd, [upc |-> upc, quantity |-> desired])
                  ELSE toAdd)

\* the remote cart after PUT /cart/remove and after PUT /cart/add
cartRemove(remote, toRemove) ==
  [u \in (DOMAIN remote) \ { toRemove[j].upc : j \in 1..Len(toRemove) } |-> remote[u]]
RECURSIVE cartAdd(_, _)
cartAdd(remote, toAdd) ==
  IF toAdd = <<>> THEN remote
  ELSE cartAdd(MapSet(remote, Head(toAdd).upc,
                      MapGet(remote, Head(toAdd).upc) + Head(toAdd).quantity),
               Tail(toAdd))

NamesTwice(items) == \E i, j \in 1..Len(items) : i # j /\ items[i].upc = items[j].upc

\* addToKrogerCart: without a token 401; else the snapshot of the loaded
\* document is changed in memory, the remote calls are made (remove, then
\* add), and user.save() persists the snapshot; a rejected call is caught
\* at the end of the handler (500) and nothing is saved
addToKrogerCart(items, hasToken, removeOk, addOk) ==
  /\ kcart.requests < MaxCartRequests
  /\ LET work == partitionWork(items, kcart.snapshot, <<>>, <<>>)
         removeThrows == work.toRemove # <<>> /\ ~removeOk
         addThrows == work.toAdd # <<>> /\ ~addOk
         removed == IF work.toRemove # <<>> THEN cartRemove(kcart.remote, work.toRemove)
                    ELSE kcart.remote
         seen == [kcart EXCEPT !.requests = @ + 1]
     IN  kcart' =
           IF ~hasToken THEN [seen EXCEPT !.status = 401]
           ELSE IF removeThrows THEN [seen EXCEPT !.status = 500, !.threw = TRUE]
           ELSE IF addThrows
             THEN [seen EXCEPT !.status = 500, !.threw = TRUE, !.remote = removed]
           ELSE [seen EXCEPT !.status = 200, !.snapshot = work.snapshot,
                             !.remote = cartAdd(removed, work.toAdd),
                             !.repeated = @ \/ NamesTwice(items)]
  /\ UNCHANGED <<redis, req, warm, served, expiries, redisUp, other, answers, decision,
                 measure, call, lastOffer, history, cartVars>>

\* addToKrogerCart requests of one user, one at a time
NextKcart ==
  \E items \in CartBodies, hasToken, removeOk, addOk \in BOOLEAN :
    addToKrogerCart(items, hasToken, removeOk, addOk)
SpecKcart == InitPipe /\ [][NextKcart]_vars

\* krogerSearch requests for one zip code, with the failed catalog searches
\* and the expiries after them remembered
NextRecover ==
  \/ \E q \in Queries : krogerSearchStart(q, "45202")
  \/ dishCacheRead
  \/ extractIngredients
  \/ resolveLocation
  \/ fetchCandidatesNoted
  \/ indexMatch
  \/ walmartFetch
  \/ walmartMatch
  \/ respond
  \/ expireNoted
SpecRecover == InitPipe /\ [][NextRecover]_vars

\* bestComparableOffer over whole candidate lists
NextOrder == \E products \in ListedInputs : scanOffers(products)
SpecOrder == InitPipe /\ [][NextOrder]_vars

\* one request on empty caches, in normal or in budget mode
NextMode == ModeStep
SpecMode == InitPipe /\ [][NextMode]_vars

\* one catalog search of either client on a cache miss
NextCall ==
  \/ \E hasLocation \in BOOLEAN : searchProductsByTerm(hasLocation)
  \/ rawSearch
  \/ requestSucceeds
  \/ \E f \in Failures : requestFails(f)
  \/ backoff
SpecCall == InitPipe /\ [][NextCall]_vars

\* the unit parser over pairs of volume texts
NextUnits == \E text \in VolumeTexts : measureFirst(text) \/ measureSecond(text)
SpecUnits == InitPipe /\ [][NextUnits]_vars

(* ============================== properties =========================== *)
UpcsOf(items) == { items[j].upc : j \in 1..Len(items) }
QtyMap(items) ==
  [k \in UpcsOf(items) |-> items[CHOOSE j \in 1..Len(items) : items[j].upc = k].quantity]
Is2xx(st) == st >= 200 /\ st < 300
InLoop(pc) == pc \in {"item_loop", "item_refresh", "item_retry"}

\* C1: in addKrogerItemsToCart, an item answered with a non-2xx, non-auth
\* HTTP status is not added and does not stop the loop: the run goes on
\* with the next item; when the run is done every item was attempted,
\* addedCount is the number of items answered 2xx and skippedCount is 0.
C1_PartialAddResilience ==
  \A r \in Runs :
    LET rr == run[r] IN
    /\ (rr.last.index > 0 /\ ~Is2xx(rr.last.final) /\ rr.last.final \notin {401, 403}) =>
         /\ rr.last.upc \notin UpcsOf(rr.addedItems)
         /\ rr.last.upc \notin rr.dirty
         /\ rr.i = rr.last.index + 1
         /\ (rr.last.index < Len(rr.items) => InLoop(rr.pc) \/ rr.pc = "failed")
    /\ (rr.pc = "done" /\ rr.items # <<>>) =>
         /\ rr.i = Len(rr.items) + 1
         /\ rr.addedCount = Cardinality(rr.okUpcs)
         /\ rr.addedCount = Len(rr.addedItems)
         /\ rr.skippedCount = 0

\* three items, the second answered 500, the loop is at the third
C1_Witness ==
  /\ run[1].pc = "item_loop" /\ Len(run[1].items) = 3 /\ run[1].i = 3
  /\ run[1].last.index = 2 /\ run[1].last.final = 500
  /\ run[1].addedCount = 1

\* C2: a cart call that fails at the network level only costs that item:
\* the run is never cut short by it (it goes on to the remaining items and
\* reaches done).
C2_NetworkFailureIsolated ==
  \A r \in Runs : run[r].pc # "failed"

\* C3: whenever the first response for an item is 401 or 403 the engine
\* exchanges the refresh token once and sends that item once more; no item
\* is sent more than twice.
C3_RefreshAndRetryOnAuthError ==
  \A r \in Runs :
    LET e == run[r].last IN
    e.index > 0 =>
      /\ e.attempts <= 2
      /\ (e.first \in {401, 403} => e.refreshes = 1 /\ e.attempts = 2)

\* C4: whenever a run has stopped (done, or cut short by a failure on a
\* later item) the persisted snapshot holds every item whose add was
\* answered 2xx earlier in that run.
C4_SnapshotPersistedOnStop ==
  \A r \in Runs :
    run[r].pc \in {"done", "failed"} =>
      \A j \in 1..Len(run[r].addedItems) :
        LET it == run[r].addedItems[j] IN
          it.upc \in DOMAIN db.cartSnapshot /\ db.cartSnapshot[it.upc] = it.quantity

\* C5: an auto-add run clears the prior snapshot before its first add, and a
\* snapshot query made when the run is done returns exactly the items added
\* in that run, with their quantities.
C5_SnapshotResetSemantics ==
  \A r \in Runs :
    /\ (run[r].pc \in {"pending", "token_refresh"}
          \/ (InLoop(run[r].pc) /\ run[r].calls = 0 /\ run[r].refreshes = 0))
         => getKrogerCartSnapshot(db) = EmptyMap
    /\ run[r].pc = "done" => getKrogerCartSnapshot(db) = QtyMap(run[r].addedItems)

\* the run is done, it added something, and an entry from before the run
\* that the run did not add is gone
C5_Witness ==
  /\ run[1].pc = "done" /\ run[1].addedItems # <<>>
  /\ \E k \in DOMAIN run[1].prior : k \notin UpcsOf(run[1].addedItems)
  /\ DOMAIN run[1].prior # {}

\* the result of a run that halted in needs_auth: no cart call, nothing
\* added, and a login URL whose signed state decodes to the user, the time
\* of the halt and exactly the run's (upc, quantity) items
NeedsAuthResult(rr, t) ==
  /\ rr.pc = "needs_auth"
  /\ rr.calls = 0
  /\ rr.addedCount = 0
  /\ rr.addedItems = <<>>
  /\ verify(rr.loginUrl.state).userId = UserId
  /\ verify(rr.loginUrl.state).t = t
  /\ verify(rr.loginUrl.state).items = rr.items

\* the run performs its token check with no valid token and no refresh token
TokenUnavailable(r) ==
  /\ run[r].pc = "pending" /\ run'[r].pc # "pending"
  /\ ~isTokenValid(db) /\ ~db.refreshToken

\* the refresh token exchange of the token check fails
RefreshFails(r) ==
  /\ run[r].pc = "token_refresh" /\ run'[r].pc # "token_refresh"
  /\ tokCount' = tokCount

\* C6 (as stated): when the stored token is not valid and a refresh is
\* impossible or fails, the run halts in needs_auth with no remote cart
\* call, addedCount 0 and a login URL whose signed state carries the
\* timestamp and exactly the pending items.
C6_NeedsAuthAlways ==
  [][ \A r \in Runs :
        (TokenUnavailable(r) \/ RefreshFails(r)) => NeedsAuthResult(run'[r], now) ]_vars

\* C6 (amended): the same, for a run that has at least one item with a
\* non-empty upc; a run with no such item returns ok with addedCount 0
\* before the token is looked at.
C6_NeedsAuthWhenItemsPending ==
  [][ \A r \in Runs :
        /\ ((TokenUnavailable(r) \/ RefreshFails(r)) /\ run[r].items # <<>>)
             => NeedsAuthResult(run'[r], now)
        /\ (TokenUnavailable(r) /\ run[r].items = <<>>)
             => (run'[r].pc = "done" /\ run'[r].addedCount = 0 /\ run'[r].calls = 0) ]_vars

\* a run halted in needs_auth with two pending items after a failed refresh
C6_Witness ==
  /\ run[1].pc = "needs_auth" /\ Len(run[1].items) = 2
  /\ db.refreshToken /\ now > 0

\* C7: when the OAuth callback is called with the state of a run suspended
\* in needs_auth and the code exchange succeeds, the decoded items are the
\* run's pending items, they are what is sent to cart/add, and the snapshot
\* changes only if that call succeeds (then by exactly those quantities).
C7_ResumeAfterAuth ==
  /\ cb.status \in {"added", "add_failed"} =>
       \E r \in Runs :
         /\ run[r].pc = "needs_auth"
         /\ cb.decoded = run[r].items
         /\ cb.submitted = run[r].items
         /\ cb.status = "added" => db.cartSnapshot = AddAll(cb.before, run[r].items)
  /\ cb.status \notin {"added", "none"} => db.cartSnapshot = cb.before
  /\ cb.status \in {"rejected", "exchange_failed"} => cb.submitted = <<>>

\* the callback replayed two pending items whose encoding uses '-' or '_'
C7_Witness ==
  /\ cb.status = "added" /\ Len(cb.submitted) = 2
  /\ \E j \in 1..Len(run[1].loginUrl.state.body) :
       run[1].loginUrl.state.body[j] \in {ChDash, ChUnder}
  /\ db.cartSnapshot # EmptyMap

\* C8: when two auto-add runs of the same user overlapped and both are done,
\* the persisted snapshot is the snapshot of the run that finished last
\* (the items that run added, with their quantities).
C8_LastRunAuthoritative ==
  \A r \in Runs :
    ( /\ \A x \in Runs : run[x].pc = "done"
      /\ \E x \in Runs : run[x].overlap
      /\ run[r].rank = Cardinality(Runs) )
    => getKrogerCartSnapshot(db) = QtyMap(run[r].addedItems)

\* C9: a krogerSearch request whose input (query, zip; no budget mode, pick
\* cap 2) was already answered, with no cache entry dropped since, gets the
\* same payload and makes no oracle call and no catalog call.
C9_WarmRunIdempotent ==
  (req.pc \in {"responded", "failed"} /\ ~req.cold /\ Has(warm, InputOf(req))) =>
    /\ req.status = 200
    /\ req.payload = warm[InputOf(req)]
    /\ req.oracleCalls = 0
    /\ req.catalogCalls = 0

\* the index-match step of the Kroger stage is taken with the candidate-match
\* cache holding an entry for the stage's fingerprint
KrogerMatchWithEntry ==
  /\ req.pc = "match" /\ req'.pc # "match"
  /\ Has(redis.llm2, keyLLM2(WithCandidates(req.ingredients, req.titlesByIng),
                              req.titlesByIng, ChooseMax))

\* the same for the Walmart stage
WalmartMatchWithEntry ==
  /\ req.pc = "walmart_match" /\ req'.pc # "walmart_match"
  /\ Has(redis.llm2, keyLLM2(req.terms, req.wTitles, ChooseMax))

\* C10: in the index-match stage of either retailer, when the candidate-match
\* cache holds an entry for the fingerprint of (ingredient list, enumerated
\* titles, N), no oracle call is made and the result is the cached picks
\* resolved against the pools fetched in this run.
C10_MatchCacheHitSkipsOracle ==
  [][ /\ KrogerMatchWithEntry =>
           /\ req'.oracleCalls = req.oracleCalls
           /\ req'.kroger =
                resultPayload(req,
                  redis.llm2[keyLLM2(WithCandidates(req.ingredients, req.titlesByIng),
                                     req.titlesByIng, ChooseMax)])
      /\ WalmartMatchWithEntry =>
           /\ req'.oracleCalls = req.oracleCalls
           /\ req'.payload =
                buildFinalPayload(req.kroger,
                  walmartResult(req, redis.llm2[keyLLM2(req.terms, req.wTitles, ChooseMax)]))
    ]_vars

\* C11: a request during which a Redis call rejected, and no oracle or
\* catalog call failed, is still answered 200, with the payload of an empty
\* cache: no search is reported as failed.
C11_CacheFailureTolerated ==
  (req.pc \in {"responded", "failed"} /\ req.cacheFailed /\ ~req.upstreamFailed) =>
    /\ req.status = 200
    /\ \A j \in 1..Len(req.payload.warnings) :
         req.payload.warnings[j].error # "product_search_failed"

\* C12: once two overlapping runs of a query have both been answered, every
\* later run of that query is answered one and the same payload, and it is
\* the payload of one of the two.
C12_ConcurrentRunsConverge ==
  Len(answers.first) = OverlapCount =>
    /\ answers.later \subseteq Range(answers.first)
    /\ Cardinality(answers.later) <= 1

\* C13: the extraction step maps the term list arr, whether the oracle just
\* answered it or the oracle cache held it: one term is a bare ingredient
\* with no dish name, more than one term gives the first as dish name and
\* the rest in order as ingredients, no term gives no ingredient.
C13_ExtractionMapping ==
  [][ (req.pc = "llm1" /\ req'.pc \notin {"llm1", "failed"}) =>
        LET arr == redis'.llm1[keyLLM1(req.query)] IN
          /\ Len(arr) = 1 =>
                req'.pc = "location" /\ req'.dishName = NoDish /\ req'.ingredients = arr
          /\ Len(arr) > 1 =>
                /\ req'.pc = "location"
                /\ req'.dishName = arr[1]
                /\ req'.ingredients = SubSeq(arr, 2, Len(arr))
          /\ Len(arr) = 0 =>
                req'.kroger.ingredients = <<>> /\ req'.kroger.dishName = NoDish ]_vars

\* a request whose dish name and ingredients came from the oracle cache
C13_Witness ==
  /\ req.pc = "location"
  /\ req.oracleCalls = 0
  /\ req.dishName = "omelette"
  /\ req.ingredients = <<"egg", "Milk">>

\* C14: a request whose extraction yields zero ingredients is answered the
\* early-return payload, warnings = [no_ingredients] and ingredients = [],
\* without any catalog search, and its auto-add plan is empty (no cart call).
C14_NoIngredientsEarlyReturn ==
  ( /\ req.pc = "responded"
    /\ Has(redis.llm1, keyLLM1(req.query))
    /\ redis.llm1[keyLLM1(req.query)] = <<>> ) =>
    /\ req.status = 200
    /\ req.payload.warnings = << Warning("", "no_ingredients") >>
    /\ req.payload.ingredients = <<>>
    /\ req.payload.krogerProducts = <<>> /\ req.payload.walmartProducts = <<>>
    /\ req.catalogCalls = 0
    /\ autoAddPlan(req.payload) = <<>>

\* the oracle was asked and answered no term
C14_Witness ==
  /\ req.pc = "responded"
  /\ req.oracleCalls = 1
  /\ Has(redis.llm1, keyLLM1(req.query))
  /\ redis.llm1[keyLLM1(req.query)] = <<>>
  /\ req.payload.warnings = << Warning("", "no_ingredients") >>

\* C15: in the candidate loop a term whose Kroger catalog search failed has
\* an empty pool and a product_search_failed warning, and every term before
\* the loop position has been searched (has a pool), the failed ones included.
C15_SearchFailureIsolated ==
  req.pc \in {"fetch", "match"} =>
    /\ \A t \in req.searchFailed :
         /\ PoolOf(req.fullByIng, t) = <<>>
         /\ Warning(t, "product_search_failed") \in Range(req.warnings)
    /\ \A j \in 1..Len(req.ingredients) :
         (req.pc = "match" \/ j < req.i) => Has(req.fullByIng, req.ingredients[j])

\* the Kroger index-match step of the request, from the picks (asked or
\* cached) to the returned payload
KrogerMatchDone == req.pc = "match" /\ req'.pc \notin {"match", "failed"}
\* the final_picks that step resolved
KrogerPicksUsed ==
  redis'.llm2[keyLLM2(WithCandidates(req.ingredients, req.titlesByIng), req.titlesByIng,
                      ChooseMax)]
\* every index of entry e is < 0 or >= the number of titles of its ingredient
AllOutOfRange(e, titlesByIng) ==
  /\ e.indices # <<>>
  /\ \A n \in 1..Len(e.indices) :
       e.indices[n] < 0 \/ e.indices[n] >= Len(PoolOf(titlesByIng, e.ingredient))

\* C16: index values < 0 or >= the pool length are dropped without a throw;
\* an ingredient whose indices are all dropped contributes no product and
\* has a no_valid_indices warning in the returned payload.
C16_IndexBoundsSafety ==
  [][ KrogerMatchDone =>
        \A j \in 1..Len(KrogerPicksUsed) :
          LET e == KrogerPicksUsed[j] IN
            AllOutOfRange(e, req.titlesByIng) =>
              /\ ~Has(req'.kroger.krogerMatchedByIngredient, e.ingredient)
              /\ Warning(e.ingredient, "no_valid_indices") \in Range(req'.kroger.warnings)
    ]_vars

\* C18: an ingredient that took part in the index match and ends it with no
\* resolved product has a no_confident_match warning, is not in
\* matchedInKroger and has no product in the returned payload.
C18_NoConfidentMatchRecorded ==
  [][ KrogerMatchDone =>
        \A g \in Range(WithCandidates(req.ingredients, req.titlesByIng)) :
          ~Has(req'.kroger.krogerMatchedByIngredient, g) =>
            /\ g \notin Range(req'.kroger.matchedInKroger)
            /\ Warning(g, "no_confident_match") \in Range(req'.kroger.warnings)
    ]_vars

\* the Walmart index-match step of the request, from the oracle's picks to
\* the answered payload
WalmartMatchDone == req.pc = "walmart_match" /\ req'.pc = "responded"
TitlesOf(products) == [j \in 1..Len(products) |-> products[j].title]
\* the titles the stated rule resolves the indices idx to: the title of a
\* surviving index when a pool record has exactly that title, else a pool
\* title equal to it after normalisation, else nothing
RECURSIVE RuleTitles(_, _, _)
RuleTitles(idx, titles, poolTitles) ==
  IF idx = <<>> THEN <<>>
  ELSE LET i == Head(idx)
           rest == RuleTitles(Tail(idx), titles, poolTitles)
       IN  IF i < 0 \/ i >= Len(titles) THEN rest
           ELSE IF titles[i + 1] \in Range(poolTitles) THEN <<titles[i + 1]>> \o rest
           ELSE IF \E u \in Range(poolTitles) : normTitle(u) = normTitle(titles[i + 1])
             THEN << CHOOSE u \in Range(poolTitles) :
                       normTitle(u) = normTitle(titles[i + 1]) >> \o rest
           ELSE rest
\* whether a surviving index of idx has a title no pool record matches
SomeTitleNotInPool(idx, titles, poolTitles) ==
  \E n \in 1..Len(idx) :
    /\ idx[n] >= 0 /\ idx[n] < Len(titles)
    /\ \A u \in Range(poolTitles) : normTitle(u) # normTitle(titles[idx[n] + 1])

KrogerAligned(titles, pool) ==
  /\ Len(titles) = Len(pool)
  /\ \A n \in 1..Len(titles) : titles[n] = pool[n].description
WalmartAligned(titles, pool) ==
  /\ Len(titles) = Len(pool)
  /\ \A n \in 1..Len(titles) : titles[n] = pool[n].name
\* the pool positions the in-range indices of idx point at
RECURSIVE PositionsOf(_, _)
PositionsOf(idx, pool) ==
  IF idx = <<>> THEN <<>>
  ELSE IF Head(idx) < 0 \/ Head(idx) >= Len(pool) THEN PositionsOf(Tail(idx), pool)
  ELSE << Head(idx) + 1 >> \o PositionsOf(Tail(idx), pool)
KrogerByPosition(e, pool, locationId) ==
  LET at == PositionsOf(Dedupe(e.indices), pool)
  IN  [n \in 1..Len(at) |-> normalizeKroger(pool[at[n]], locationId)]
WalmartByPosition(e, pool) ==
  LET at == PositionsOf(Dedupe(e.indices), pool)
  IN  [n \in 1..Len(at) |-> normalizeWalmart(pool[at[n]])]

\* C19 (Kroger half): the titles of every fetched Kroger pool line up with
\* its records, and the products of an entry are the records at the chosen
\* positions of that pool.
C19_KrogerPositional ==
  [][ /\ \A j \in 1..Len(req'.ingredients) :
           KrogerAligned(PoolOf(req'.titlesByIng, req'.ingredients[j]),
                         PoolOf(req'.fullByIng, req'.ingredients[j]))
      /\ KrogerMatchDone =>
           \A j \in 1..Len(KrogerPicksUsed) :
             LET e == KrogerPicksUsed[j]
             IN  PoolOf(req'.kroger.krogerMatchedByIngredient, e.ingredient)
                   = KrogerByPosition(e, PoolOf(req.fullByIng, e.ingredient), req.locationId)
    ]_vars

\* C19 (Walmart half): the same for the Walmart pools.
C19_WalmartPositional ==
  [][ /\ \A j \in 1..Len(req'.terms) :
           WalmartAligned(PoolOf(req'.wTitles, req'.terms[j]),
                          PoolOf(req'.wFull, req'.terms[j]))
      /\ WalmartMatchDone =>
           \A j \in 1..Len(req'.wPicks) :
             LET e == req'.wPicks[j]
             IN  PoolOf(req'.payload.walmartByIngredient, e.ingredient)
                   = WalmartByPosition(e, PoolOf(req.wFull, e.ingredient))
    ]_vars

\* C19: for every ingredient pool of either retailer the title list and the
\* record list have equal length and are index-aligned, and the product
\* resolved for a chosen index i is the record at position i of the pool
\* fetched in the same run.
C19_IndexAlignment ==
  [][ /\ \A j \in 1..Len(req'.ingredients) :
           KrogerAligned(PoolOf(req'.titlesByIng, req'.ingredients[j]),
                         PoolOf(req'.fullByIng, req'.ingredients[j]))
      /\ \A j \in 1..Len(req'.terms) :
           WalmartAligned(PoolOf(req'.wTitles, req'.terms[j]),
                          PoolOf(req'.wFull, req'.terms[j]))
      /\ KrogerMatchDone =>
           \A j \in 1..Len(KrogerPicksUsed) :
             LET e == KrogerPicksUsed[j]
             IN  PoolOf(req'.kroger.krogerMatchedByIngredient, e.ingredient)
                   = KrogerByPosition(e, PoolOf(req.fullByIng, e.ingredient), req.locationId)
      /\ WalmartMatchDone =>
           \A j \in 1..Len(req'.wPicks) :
             LET e == req'.wPicks[j]
             IN  PoolOf(req'.payload.walmartByIngredient, e.ingredient)
                   = WalmartByPosition(e, PoolOf(req.wFull, e.ingredient))
    ]_vars

\* C20: chooseWinnerForIngredient decides in this order: when only one
\* retailer has an offer it wins; when neither has one the winner is none;
\* when both best offers have a unit price of the same unit kind the lower
\* unit price wins and a tie goes to Kroger; otherwise, also when the unit
\* kinds differ, the lower absolute price wins and a tie goes to Kroger.
C20_WinnerOrder ==
  LET k == decision.result.krogerBest
      w == decision.result.walmartBest
      winner == decision.result.winner
  IN  /\ (decision.kArr # <<>> /\ decision.wArr = <<>>) => winner = "kroger"
      /\ (decision.kArr = <<>> /\ decision.wArr # <<>>) => winner = "walmart"
      /\ (decision.kArr = <<>> /\ decision.wArr = <<>>) => winner = "none"
      /\ (decision.kArr # <<>> /\ decision.wArr # <<>>) =>
           /\ k # <<>> /\ w # <<>>
           /\ (k[1].unitKind = w[1].unitKind /\ k[1].unitKind # "none") =>
                /\ k[1].price * w[1].unitQty < w[1].price * k[1].unitQty => winner = "kroger"
                /\ k[1].price * w[1].unitQty > w[1].price * k[1].unitQty => winner = "walmart"
                /\ k[1].price * w[1].unitQty = w[1].price * k[1].unitQty => winner = "kroger"
           /\ (k[1].unitKind # w[1].unitKind \/ k[1].unitKind = "none") =>
                /\ k[1].price < w[1].price => winner = "kroger"
                /\ k[1].price > w[1].price => winner = "walmart"
                /\ k[1].price = w[1].price => winner = "kroger"

\* Kroger's 16 oz for 4 ties Walmart's 8 oz for 2 on unit price and wins,
\* although its absolute price is the higher one
C20_Witness ==
  /\ decision.kArr = << Offered(4, SizeText(1, 16, "oz"), NoText) >>
  /\ decision.wArr = << Offered(2, SizeText(1, 8, "oz"), NoText) >>
  /\ decision.result.winner = "kroger"
  /\ decision.result.reason = "unit_price"

\* the best offers of the last decision when both retailers had one
BothOffered == decision.kArr # <<>> /\ decision.wArr # <<>>
WinnerOffer ==
  IF decision.result.winner = "kroger" THEN decision.result.krogerBest[1]
  ELSE decision.result.walmartBest[1]
LoserOffer ==
  IF decision.result.winner = "kroger" THEN decision.result.walmartBest[1]
  ELSE decision.result.krogerBest[1]

\* C21: of two best offers of the same unit kind with different unit
\* prices the one with the lower unit price wins, whichever retailer holds
\* it; of two best offers of different unit kinds with different prices the
\* one with the lower absolute price wins, whichever retailer holds it.
C21_WinnerDeterminism ==
  BothOffered =>
    LET k == decision.result.krogerBest[1]
        w == decision.result.walmartBest[1]
    IN  /\ decision.result.winner \in {"kroger", "walmart"}
        /\ (k.unitKind = w.unitKind /\ k.unitKind # "none"
              /\ k.price * w.unitQty # w.price * k.unitQty) =>
             WinnerOffer.price * LoserOffer.unitQty < LoserOffer.price * WinnerOffer.unitQty
        /\ (k.unitKind # w.unitKind /\ k.price # w.price) =>
             WinnerOffer.price < LoserOffer.price

\* Walmart's pound for 3 beats Kroger's 8 oz for 2 on unit price, although
\* Kroger's absolute price is the lower one
C21_Witness ==
  /\ decision.kArr = << Offered(2, SizeText(1, 8, "oz"), NoText) >>
  /\ decision.wArr = << Offered(3, NoText, SizeText(1, 1, "lb")) >>
  /\ decision.result.winner = "walmart"
  /\ decision.result.reason = "unit_price"

\* C22: "2 L" and "2000 ml" parse to the same unit kind, volume in fluid
\* ounces, and to the same quantity; more generally n litres and 1000 * n
\* millilitres parse to the same kind and quantity.
C22_LitreMillilitre ==
  LET l == measure.first
      ml == measure.second
  IN  (/\ ToLower(l.text.unit) = "l" /\ ToLower(ml.text.unit) = "ml"
       /\ l.text.a * l.text.n > 0
       /\ ml.text.a * ml.text.n = 1000 * l.text.a * l.text.n) =>
        /\ l.parsed.kind = "volume_floz"
        /\ ml.parsed.kind = "volume_floz"
        /\ l.parsed.qty = ml.parsed.qty

\* "2 L" and "2000 ml" were parsed: both are 67.6280454 fl oz
C22_Witness ==
  /\ measure.first = Measured(SizeText(1, 2, "L"),
                              [kind |-> "volume_floz", qty |-> Dec(676280454, -7)])
  /\ measure.second = Measured(SizeText(1, 2000, "ml"),
                               [kind |-> "volume_floz", qty |-> Dec(676280454, -7)])

\* runKrogerSearchPipeline returns to krogerSearch, which decides the
\* Walmart terms
KrogerReturns ==
  /\ req.pc \in {"dishcache", "llm1", "fetch", "match"}
  /\ req'.pc \in {"walmart_fetch", "responded"}
LowerSet(terms) == { ToLower(terms[j]) : j \in 1..Len(terms) }
UnmatchedAtKroger(k) ==
  SelectSeq(k.ingredients, LAMBDA g : g \notin Range(k.matchedInKroger))

\* C23: in normal mode Walmart is searched for exactly the ingredients that
\* were not matched at Kroger, so when every ingredient matched Walmart is
\* not queried and its product list is empty; in budget mode Walmart is
\* searched for every extracted ingredient.
C23_WalmartTerms ==
  [][ KrogerReturns =>
        /\ ~req.budgetSearch =>
             /\ LowerSet(req'.terms) = LowerSet(UnmatchedAtKroger(req'.kroger))
             /\ UnmatchedAtKroger(req'.kroger) = <<>> =>
                  /\ req'.pc = "responded"
                  /\ req'.payload.walmartProducts = <<>>
        /\ req.budgetSearch => LowerSet(req'.terms) = LowerSet(req'.kroger.ingredients)
    ]_vars

\* the budget half of C23 alone
C23_BudgetSearchesAll ==
  [][ (KrogerReturns /\ req.budgetSearch) =>
        LowerSet(req'.terms) = LowerSet(req'.kroger.ingredients) ]_vars

\* the all-matched half of C23 alone
C23_AllMatchedSkipsWalmart ==
  [][ (KrogerReturns /\ ~req.budgetSearch /\ UnmatchedAtKroger(req'.kroger) = <<>>) =>
        /\ req'.pc = "responded"
        /\ req'.terms = <<>>
        /\ req'.payload.walmartProducts = <<>> ]_vars

\* the requests of the ordinary search (fb = FALSE) or of the fallback
RequestsOf(fb) == SelectSeq(call.requests, LAMBDA r : r.fallback = fb)
\* failure classes as the statements name them
ServerClass(f) == f.status = 429 \/ (f.status >= 500 /\ f.status <= 599) \/ endsWith500(f.code)
ClientClass(f) == f.status >= 400 /\ f.status <= 499 /\ ~ServerClass(f)
Transient(f) == f.status = 0 \/ f.status = 429 \/ (f.status >= 500 /\ f.status <= 599)
AllTransient ==
  /\ call.requests # <<>>
  /\ \A j \in 1..Len(call.requests) : Transient(call.requests[j].outcome)

\* C24: a catalog search whose requests fail with a timeout, a 5xx or a 429
\* is retried, with bounded backoff, and when it keeps failing it ends with
\* an empty result for the term (never with a list, never without end).
C24_TransientRetried ==
  (call.pc = "done" /\ AllTransient) =>
    /\ Len(call.requests) > 1
    /\ Len(call.waits) >= 1
    /\ \A j \in 1..Len(call.waits) : call.waits[j] <= BaseMs * Pow2(Retries - 1)
    /\ call.result \in {"empty", "throw"}

\* the part of C24 that holds: a search whose last request failed ends
\* empty or throws to the candidate loop, after at most 2 * (Retries + 1)
\* requests and delays of at most BaseMs * 2^(Retries - 1) plus jitter
C24_DegradesAfterBoundedWork ==
  /\ Len(call.requests) <= 2 * (Retries + 1)
  /\ \A j \in 1..Len(call.waits) : call.waits[j] <= BaseMs * Pow2(Retries - 1)
  /\ (call.pc = "done" /\ call.requests[Len(call.requests)].outcome # Ok) =>
       call.result \in {"empty", "throw"}

LastCandidateStep == req.pc = "fetch" /\ req'.pc # "fetch"

\* no ingredient of rq has a candidate title
NoCandidateAnywhere(rq) ==
  \A g \in Range(rq.ingredients) : PoolOf(rq.titlesByIng, g) = <<>>

\* the early return of lines 698-712 as seen from the step that takes it
EarlyReturned ==
  /\ req'.pc \in {"walmart_fetch", "walmart_match", "responded"}
  /\ req'.kroger.products = <<>>
  /\ req'.kroger.matchedInKroger = <<>>
  /\ req'.kroger.ingredients = req.ingredients
  /\ req'.kroger.dishName = req.dishName
  /\ Len(req'.kroger.warnings) = Len(req.ingredients)
  /\ \A j \in 1..Len(req.ingredients) :
       /\ req'.kroger.warnings[j].ingredient = req.ingredients[j]
       /\ req'.kroger.warnings[j].error \in {"no_candidates", "product_search_failed"}
  /\ req'.oracleCalls = req.oracleCalls
  /\ req'.status # 500
  /\ redis'.dish[fastKey(req.query, req.zip, ChooseMax)] = req'.kroger

\* C26: when the candidate loop ends and no extracted ingredient has a
\* candidate at Kroger, the pipeline returns the early payload (no products,
\* the original ingredient list, one no_candidates or product_search_failed
\* warning per ingredient) with no index-match oracle call and no error; the
\* index-match stage is entered only when some ingredient has a candidate
C26_NoCandidatesEarlyReturn ==
  [][ LastCandidateStep =>
        /\ req'.pc = "match" => ~NoCandidateAnywhere(req')
        /\ req'.pc # "match" => EarlyReturned ]_vars

\* a request answered from the early return: two ingredients, none with a
\* candidate, the catalog asked for both, the Kroger oracle never
C26_Witness ==
  /\ req.pc = "responded" /\ req.status = 200
  /\ Len(req.kroger.ingredients) = 2
  /\ req.kroger.products = <<>>
  /\ Len(req.kroger.warnings) = 2
  /\ req.catalogCalls >= 2
  /\ req.payload.krogerProducts = <<>>

(* ------------------------ the token of a cart call ------------------- *)
\* run r sends a PUT /cart/add in this step: attempt(token)
CartCall(r) == run[r].pc \in {"item_loop", "item_retry"} /\ run'[r] # run[r]

\* access tokens are numbered in the order of issue and the one stored
\* before the run is the first: a later one came from a refresh of this run
IssuedInRun(r) == run[r].token > 1

\* the stored expiry of the token of run r is more than the margin ahead
MarginAhead(r) == run[r].u.expiresAt - now > SafetyMarginMs

\* C27 (as stated): every cart call carries a token whose stored expiry is
\* more than 60 seconds in the future when the call is made, or a token
\* obtained by a refresh during the same run
C27_TokenFreshAtCall ==
  [][ \A r \in Runs : CartCall(r) => MarginAhead(r) \/ IssuedInRun(r) ]_vars

\* C27 (amended): the token of a run is set only by the token check before
\* the loop, which takes the stored token when its stored expiry is more than
\* 60 seconds after the time of the check, and by a successful refresh, which
\* takes the newly issued token and stores it; every cart call carries the
\* token so obtained, unchanged by the time that passes between the check
\* and the call
C27_TokenCheckedOrRefreshed ==
  [][ \A r \in Runs :
        /\ run[r].pc = "pending" /\ run'[r].pc = "item_loop" =>
              /\ db.accessToken # NoTok /\ db.expiresAt # NoDate
              /\ db.expiresAt - now > SafetyMarginMs
              /\ run'[r].token = db.accessToken
        /\ run'[r].token # run[r].token /\ run[r].pc # "pending" =>
              /\ run[r].pc \in {"token_refresh", "item_refresh"}
              /\ tokCount' = tokCount + 1
              /\ run'[r].token = tokCount'
              /\ db'.accessToken = run'[r].token
              /\ \E e \in ExpiresInSec : db'.expiresAt = now + e * 1000
        /\ CartCall(r) =>
              /\ run[r].token # NoTok
              /\ run[r].token = run[r].u.accessToken
              /\ run'[r].token = run[r].token ]_vars

\* a cart call is about to be made with the token taken at the check, whose
\* stored expiry is by now no more than the margin ahead
C27_Witness ==
  /\ run[1].pc = "item_loop"
  /\ run[1].token = 1
  /\ run[1].i >= 2
  /\ ~MarginAhead(1)

(* ------------------------- picks per ingredient ---------------------- *)
\* the longest list of resolved products any ingredient has in byIngredient
AtMostPerIngredient(byIngredient, n) ==
  \A g \in DOMAIN byIngredient : Len(byIngredient[g]) <= n

\* C29: in an answered request every ingredient has at most N resolved
\* products of either retailer, N the cap chooseMax clamped to [1,2],
\* whatever index list the oracle or the cache supplied
C29_AtMostNPerIngredient ==
  req.pc = "responded" =>
    /\ AtMostPerIngredient(req.payload.krogerByIngredient, ClampMax(ChooseMax))
    /\ AtMostPerIngredient(req.payload.walmartByIngredient, ClampMax(ChooseMax))

\* C29 (the part that holds): an index repeated in the list resolves once;
\* an ingredient has no more Walmart products than its picks hold distinct
\* indices
C29_DuplicatesOnce ==
  [][ WalmartMatchDone =>
        \A j \in 1..Len(req'.wPicks) :
          Len(PoolOf(req'.payload.walmartByIngredient, req'.wPicks[j].ingredient))
            <= Cardinality(Range(req'.wPicks[j].indices)) ]_vars

(* ----------------------- the best offer of a list -------------------- *)
\* budget mode decides again after the Kroger list grew by one product
KrogerGrew == Len(decision'.kArr) = Len(decision.kArr) + 1

\* the candidate c is strictly cheaper than the running best b: by unit
\* price when both have one of the same unit kind, else by absolute price
StrictlyCheaper(c, b) ==
  IF c.unitKind # "none" /\ b.unitKind # "none" /\ c.unitKind = b.unitKind
    THEN c.price * b.unitQty < b.price * c.unitQty
    ELSE c.price < b.price

\* C30: bestComparableOffer scans in order: the best of a list of one is
\* its product; the best of a list grown by one candidate is that candidate
\* when it is strictly cheaper than the best so far (by unit price when both
\* have a unit price of the same unit kind, by absolute price in every
\* other case), and otherwise, a tie included, the best so far
C30_ScanKeepsFirstOnTie ==
  [][ KrogerGrew =>
        LET p == decision'.kArr[Len(decision'.kArr)]
            c == offerOf(p)
            new == decision'.result.krogerBest
        IN  /\ Len(new) = 1
            /\ decision.kArr = <<>> => new[1] = c
            /\ decision.kArr # <<>> =>
                  LET b == decision.result.krogerBest[1]
                  IN  new[1] = IF StrictlyCheaper(c, b) THEN c ELSE b ]_vars

\* 16 oz for 4 was seen first, 8 oz for 2 has the same unit price and the
\* lower absolute price: the first is kept
C30_Witness ==
  /\ decision.kArr = << Offered(4, SizeText(1, 16, "oz"), NoText),
                        Offered(2, SizeText(1, 8, "oz"), NoText) >>
  /\ decision.result.krogerBest[1].product = decision.kArr[1]

(* -------------------- the quantity an offer is built on -------------- *)
\* the texts of product p in the order they are read: size, the packaging
\* fields of raw, title
SourcesOf(p) ==
  << p.size >>
    \o (IF "raw" \in DOMAIN p
          THEN LET held == SelectSeq(<< "size", "sizeString", "packageSize", "packSize", "name" >>,
                                     LAMBDA f : f \in DOMAIN p.raw)
               IN  [j \in 1..Len(held) |-> p.raw[held[j]]]
          ELSE <<>>)
    \o << p.title >>

\* the pattern families in the order stated: count, volume, weight
CountFamily == { {"pack of"}, {"ct", "count"}, {"pk", "pack"}, {"-pack"} }
VolumeFamily == { {"fl oz", "floz"}, {"ml"}, {"l"} }
WeightFamily == { {"oz"}, {"lb"}, {"g"}, {"kg"} }
\* the multi-pack phrases of a text
MultiPacks(text) ==
  SelectSeq(Phrases(text),
            LAMBDA ph : ph.a # 1 /\ ph.unit \in UNION (CountFamily \cup VolumeFamily \cup WeightFamily)
                                 /\ ph.unit \notin {"pack of", "-pack"})
\* some pattern of the family matches the text
Matches(text, family) ==
  \E units \in family : \E j \in 1..Len(Phrases(text)) : Phrases(text)[j].unit \in units
\* some pattern of the family matches the text and the number of its first
\* match is positive
MatchesPositive(text, family) ==
  \E units \in family :
    \E j \in 1..Len(Phrases(text)) :
      /\ Phrases(text)[j].unit \in units /\ Phrases(text)[j].n > 0
      /\ \A i \in 1..(j - 1) : Phrases(text)[i].unit \notin units
\* the unit kind the stated order gives a text: the first pattern that
\* matches decides
StatedKind(text) ==
  IF MultiPacks(text) # <<>> THEN unitKind(MultiPacks(text)[1].unit)
  ELSE IF Matches(text, CountFamily) THEN "count"
  ELSE IF Matches(text, VolumeFamily) THEN "volume_floz"
  ELSE IF Matches(text, WeightFamily) THEN "weight_oz"
  ELSE "none"
\* the same order, a pattern deciding only when the number it captured is
\* positive
PositiveKind(text) ==
  IF MultiPacks(text) # <<>> /\ MultiPacks(text)[1].a > 0 /\ MultiPacks(text)[1].n > 0
    THEN unitKind(MultiPacks(text)[1].unit)
  ELSE IF MatchesPositive(text, CountFamily) THEN "count"
  ELSE IF MatchesPositive(text, VolumeFamily) THEN "volume_floz"
  ELSE IF MatchesPositive(text, WeightFamily) THEN "weight_oz"
  ELSE "none"
\* the offer is built on the first source that parses
FirstParsingSource ==
  LET src == SourcesOf(lastOffer.product)
      parses(j) == parseUnitQuantityFromText(src[j]) # NoParse
  IN  IF \E j \in 1..Len(src) : parses(j)
        THEN \E j \in 1..Len(src) :
               /\ parses(j) /\ \A i \in 1..(j - 1) : ~parses(i)
               /\ lastOffer.offer.unitKind = parseUnitQuantityFromText(src[j]).kind
               /\ lastOffer.offer.unitQty = parseUnitQuantityFromText(src[j]).qty
        ELSE lastOffer.offer.unitKind = "none"
\* a multi-pack with positive numbers is multiplied into a total
MultiPackTotal(text) ==
  LET mp == MultiPacks(text)
  IN  mp # <<>> /\ mp[1].a > 0 /\ mp[1].n > 0 =>
        parseUnitQuantityFromText(text)
          = parseUnitQuantityFromText(SizeText(1, mp[1].a * mp[1].n, mp[1].unit))

\* C31 (as stated): the offer takes its quantity from the first source that
\* parses (size, packaging fields, title), and in every text the patterns
\* are tried in the order multi-pack, count, volume, weight, the first that
\* matches deciding the unit kind; a text matching no pattern has none
C31_FirstMatchDecides ==
  lastOffer.read =>
    /\ FirstParsingSource
    /\ \A j \in 1..Len(SourcesOf(lastOffer.product)) :
         LET text == SourcesOf(lastOffer.product)[j]
         IN  parseUnitQuantityFromText(text).kind = StatedKind(text)

\* C31 (amended): the same, a pattern deciding only when the number it
\* captured is positive (both numbers of a multi-pack, which is then
\* multiplied into a total); a pattern that matched a zero is passed over
C31_FirstPositiveMatchDecides ==
  lastOffer.read =>
    /\ FirstParsingSource
    /\ \A j \in 1..Len(SourcesOf(lastOffer.product)) :
         LET text == SourcesOf(lastOffer.product)[j]
         IN  /\ parseUnitQuantityFromText(text).kind = PositiveKind(text)
             /\ MultiPackTotal(text)

\* the size is "8 oz 12 ct" and the title "1 lb": the size parses first and
\* its count pattern decides, before the weight written ahead of it
C31_Witness ==
  /\ lastOffer.read
  /\ lastOffer.product.size = TextOf(<< SizeText(1, 8, "oz"), SizeText(1, 12, "ct") >>)
  /\ lastOffer.product.title = SizeText(1, 1, "lb")
  /\ lastOffer.offer.unitKind = "count" /\ lastOffer.offer.unitQty = 12

(* ----------------------- the fields of an offer ---------------------- *)
\* the unit quantity of offer o is positive
QtyPositive(o) == IF o.metric THEN o.unitQty.m > 0 ELSE o.unitQty > 0

\* C32: an offer has a unit price only if it has a unit kind and a unit
\* quantity > 0; an offer with no parsed unit has unit kind, unit quantity
\* and unit price all empty, and against every other offer it is compared
\* on absolute price, never on unit price
C32_UnitPriceOnlyWithUnit ==
  lastOffer.read =>
    LET o == lastOffer.offer
    IN  /\ o.unitPrice # <<>> =>
              /\ o.unitKind # "none" /\ QtyPositive(o)
              /\ o.unitPrice[1] = [price |-> o.price, per |-> o.unitQty]
        /\ o.basis = "price" =>
              /\ o.unitKind = "none" /\ o.unitQty = 0 /\ o.unitPrice = <<>>
              /\ \A q \in OfferProducts :
                   ~sameUnit(o, offerOf(q)) /\ ~sameUnit(offerOf(q), o)
        /\ o.basis = "unit" <=> o.unitPrice # <<>>

\* a product whose only text is "0 oz": a pattern matched and no unit was
\* parsed, the offer has no unit price
C32_Witness ==
  /\ lastOffer.read
  /\ lastOffer.product = [price |-> 3, size |-> SizeText(1, 0, "oz"), title |-> NoText]
  /\ lastOffer.offer.unitPrice = <<>>
  /\ lastOffer.offer.basis = "price"

(* --------------------- the lists of budget mode ---------------------- *)
WalmartReturns == req.pc = "walmart_match" /\ req'.pc = "responded"

\* C35: in a budget payload an ingredient with a matched product at either
\* retailer is listed under exactly one retailer, the winner, with that
\* retailer's matched products; an ingredient with none is listed under
\* neither
C35_BudgetExactlyOneList ==
  [][ (WalmartReturns /\ req.budgetSearch) =>
        \A ing \in Range(req'.payload.ingredients) :
          LET kArr == PoolOf(req.kroger.krogerMatchedByIngredient, ing)
              wArr == PoolOf(walmartResult(req, req'.wPicks).byIngredient, ing)
              inKroger == Has(req'.payload.krogerByIngredient, ing)
              inWalmart == Has(req'.payload.walmartByIngredient, ing)
              winner == chooseWinnerForIngredient(offeredOf(kArr), offeredOf(wArr)).winner
          IN  /\ (kArr # <<>> \/ wArr # <<>>) =>
                   /\ inKroger # inWalmart
                   /\ inKroger <=> winner = "kroger"
                   /\ inWalmart <=> winner = "walmart"
                   /\ inKroger => req'.payload.krogerByIngredient[ing] = kArr
                   /\ inWalmart => req'.payload.walmartByIngredient[ing] = wArr
              /\ (kArr = <<>> /\ wArr = <<>>) => ~inKroger /\ ~inWalmart ]_vars

\* a budget payload lists under Walmart alone an ingredient that Kroger
\* matched as well
C35_Witness ==
  /\ req.pc = "responded" /\ req.budgetSearch /\ req.payload.budgetSearch
  /\ \E ing \in Range(req.payload.ingredients) :
       /\ PoolOf(req.kroger.krogerMatchedByIngredient, ing) # <<>>
       /\ Has(req.payload.walmartByIngredient, ing)
       /\ ~Has(req.payload.krogerByIngredient, ing)

(* ------------------- the matched ingredient lists -------------------- *)
Answered == req.pc = "responded" /\ req.status = 200
ListedWithProducts(matched, byIngredient) ==
  \A g \in Range(matched) : PoolOf(byIngredient, g) # <<>>

\* C36: in a final payload every ingredient listed as matched at a retailer
\* is one of the extracted ingredients and has a product in that retailer's
\* per-ingredient list
C36_MatchedAreExtracted ==
  Answered =>
    /\ Range(req.payload.matchedInKroger) \subseteq Range(req.payload.ingredients)
    /\ Range(req.payload.matchedInWalmart) \subseteq Range(req.payload.ingredients)
    /\ ListedWithProducts(req.payload.matchedInKroger, req.payload.krogerByIngredient)
    /\ ListedWithProducts(req.payload.matchedInWalmart, req.payload.walmartByIngredient)

\* C36 (the part that holds): every matched ingredient has a product in its
\* retailer's list, the Kroger ones are extracted ingredients, the Walmart
\* ones are extracted ingredients up to letter case
C36_MatchedUpToCase ==
  Answered =>
    /\ Range(req.payload.matchedInKroger) \subseteq Range(req.payload.ingredients)
    /\ LowerSet(req.payload.matchedInWalmart) \subseteq LowerSet(req.payload.ingredients)
    /\ ListedWithProducts(req.payload.matchedInKroger, req.payload.krogerByIngredient)
    /\ ListedWithProducts(req.payload.matchedInWalmart, req.payload.walmartByIngredient)

(* ------------------- a run after a failed search --------------------- *)
\* a run that began after the last expiry is answered and none of its calls
\* failed
AnsweredWithoutFailure ==
  Answered /\ ~req.cold /\ ~req.upstreamFailed /\ ~req.cacheFailed
\* the answer has a product for ing at a retailer
ProductsFor(payload, ing) ==
  \/ PoolOf(payload.krogerByIngredient, ing) # <<>>
  \/ \E g \in DOMAIN payload.walmartByIngredient :
       ToLower(g) = ToLower(ing) /\ payload.walmartByIngredient[g] # <<>>
\* the Kroger catalog has been asked for ing since the expiry
AskedAgain(ing) == \E key \in DOMAIN redis.ksearch : key.q = slug(ing)

\* C37: after a catalog search for an ingredient failed in one run and the
\* search entries have expired, a run of the same query that meets no
\* failure returns products for the ingredient, or has at least asked the
\* catalog for it again
C37_LaterRunRecovers ==
  \A f \in history.lapsed :
    (AnsweredWithoutFailure /\ req.zip = f.zip)
      => ProductsFor(req.payload, f.ingredient) \/ AskedAgain(f.ingredient)

(* -------------------- the snapshot and the cart ---------------------- *)
\* C38: after any sequence of addToKrogerCart requests the persisted
\* snapshot quantity of every UPC equals its quantity in the remote cart
C38_SnapshotEqualsRemote ==
  \A u \in Upcs : MapGet(kcart.snapshot, u) = MapGet(kcart.remote, u)

\* C38 (the part that holds): the two agree as long as no remote call was
\* rejected and no request named a UPC twice
C38_AgreeWithoutFailure ==
  (~kcart.threw /\ ~kcart.repeated) => C38_SnapshotEqualsRemote

\* C39: every entry of the persisted snapshot is at least 1
C39_EntriesAtLeastOne ==
  \A u \in DOMAIN kcart.snapshot : kcart.snapshot[u] >= 1

\* C39 (the part that holds): no entry of the persisted snapshot is negative
C39_EntriesNotNegative ==
  \A u \in DOMAIN kcart.snapshot : kcart.snapshot[u] >= 0

(* ------------------- the order of the candidates --------------------- *)
Reordered(list) ==
  { [i \in 1..Len(list) |-> list[p[i]]] : p \in Permutations(1..Len(list)) }
\* every candidate has a unit price, and no two share a price or a unit price
PairwiseDistinct(list) ==
  /\ \A i \in 1..Len(list) : offerOf(list[i]).unitPrice # <<>>
  /\ \A i, j \in 1..Len(list) :
       i # j => /\ list[i].price # list[j].price
                /\ offerOf(list[i]).price * offerOf(list[j]).unitQty
                     # offerOf(list[j]).price * offerOf(list[i]).unitQty
SameKind(list) ==
  \A i, j \in 1..Len(list) : offerOf(list[i]).unitKind = offerOf(list[j]).unitKind

\* C34: for candidates with pairwise distinct prices and unit prices every
\* reordering of the list has the same best offer
C34_OrderIndependent ==
  PairwiseDistinct(lastOffer.listed)
    => \A other_ \in Reordered(lastOffer.listed) :
         bestComparableOffer(other_) = lastOffer.best

\* C34 (the part that holds): candidates that all state the same kind of
\* unit have the same best offer in every order
C34_SameKindOrderIndependent ==
  PairwiseDistinct(lastOffer.listed) /\ SameKind(lastOffer.listed)
    => \A other_ \in Reordered(lastOffer.listed) :
         bestComparableOffer(other_) = lastOffer.best

(* ------------------------- the end of a run -------------------------- *)
Underway == {"token_refresh", "item_loop"}

\* C33: every run that is under way reaches done or needs_auth
C33_RunReachesDone ==
  run[1].pc \in Underway ~> run[1].pc \in {"done", "needs_auth"}

\* C33 (the part that holds): every run that has started ends: done,
\* needs_auth, or cut short by a cart call that was rejected without a
\* response
C33_RunEnds ==
  run[1].pc \in Underway ~> run[1].pc \in {"done", "needs_auth", "failed"}

\* C33 (the part that holds): no loop iteration makes more than two cart
\* calls or more than one token exchange
C33_BoundedWorkPerItem ==
  \A r \in Runs : run[r].last.attempts <= 2 /\ run[r].last.refreshes <= 1

====
